---------------------------- MODULE Spec2Model ----------------------------
(***************************************************************************)
(* A model of the treee importer: the memory-bounded Cache, the octree     *)
(* Tree, the streaming Segmenter, calculations::calculate, and the import  *)
(* pipeline of importer/src/lib.rs (run / import).                         *)
(*                                                                         *)
(* The module holds several specifications over disjoint groups of         *)
(* variables; each specification leaves the other groups at their initial  *)
(* value:                                                                  *)
(*   SpecCache      the Cache operations                                   *)
(*   SpecTree       Tree::insert                                           *)
(*   SpecFlatten    Tree::insert with the Cache, then Tree::flatten        *)
(*   SpecSegmenter  Segmenter::add_point / segments, then the shuffle and  *)
(*                  the parallel id assignment of import                   *)
(*   SpecCalculate  calculations::calculate on one segment                 *)
(*   Spec           run / import: the two producer/consumer stages         *)
(*   FairSpec       run / import on two or more workers, with fairness     *)
(***************************************************************************)
EXTENDS Integers, Sequences, FiniteSets, TLC

VARIABLES
    \* ---- Cache
    entries,      \* resident buffers: key -> sequence of bytes
    stored,       \* buffers spilled to the backing file: key -> bytes
    lru,          \* resident keys, least recently used first
    written,      \* history: key -> every byte appended to it, in order
    ret,          \* what the last Cache operation returned
    \* ---- Tree
    tree,         \* path -> node (a leaf with its buffered points, or a branch)
    inserted,     \* history: the points given to Tree::insert, in order
    flat,         \* the containers the flatten calls produced, in order
    \* ---- Segmenter
    settings,     \* the Settings of the run
    stream,       \* the positions given to add_point so far
    segmenter,    \* the Segmenter: its segments, next identifier, last joins
    segPhase,     \* adding, finalized, shuffled
    emitted,      \* the list returned by segments(), later shuffled
    pointSegment, \* point -> the identifier its computed point carries
    calculated,   \* the items of emitted that calculate has processed
    \* ---- run / import
    pc,           \* where the main thread is
    result,       \* what run returned: an Error, "Ok", or "none" so far
    max_threads,  \* Command.max_threads
    poolSize,     \* workers of the rayon pool import is installed in
    outKind,      \* what the output path is when import starts
    inputOpened,  \* the input file has been opened
    chunksRead,   \* chunks decoded from the input
    disk,         \* what import has created on disk
    nChunks,      \* chunks the input holds
    chunkChan,    \* the bounded(4) channel of chunks
    resultChan,   \* the bounded(2) channel of calculated segments
    senderDropped,\* the sender of the running stage's channel was dropped
    reader,       \* first closure of the first join
    consumer,     \* second closure of the running join
    items,        \* second join: state of each item of the parallel iterator
    mutating,     \* threads inside a call that mutates Segmenter, Tree or Cache
    added,        \* Segmenter::add_point calls made
    segments,     \* the emitted segments, shuffled
    segment_values, \* the table the tree consumer fills
    saved,        \* segment_writer.save: writer index -> segment
    treeInserted, \* Tree::insert calls made, per segment identifier
    project,      \* the Project flatten returned: its segment tables
    received,     \* the identifiers of the results, in order of arrival
    \* ---- calculate
    data,         \* the positions of the segment given to calculate
    calcPc,       \* where calculate is
    minmax,       \* the least and greatest height of data
    sep,          \* index of the slice the trunk ends at
    res,          \* the Points computed so far
    information,  \* the SegmentInformation returned
    \* ---- DataFile
    fileState,    \* absent, or created by DataFile::new
    tableSize,    \* the size DataFile::new was given
    file,         \* the bytes of the file
    saves,        \* history: the save calls made, in order
    readResult,   \* what the last read returned, none since the last save
    \* ---- triangulate
    triPc,        \* where triangulate is
    used,         \* the points marked used
    indices_len,  \* indices.len(): the entries of the index list so far
    edges,        \* the map of active edges: Edge -> opposite point
    found,        \* the edges done with, each as the pair of its ends
    taken         \* history: how often the loop took each pair of ends

cacheVars == <<entries, stored, lru, written, ret>>

treeVars == <<tree, inserted, flat>>

segVars == <<settings, stream, segmenter, segPhase, emitted, pointSegment, calculated>>

ioVars == <<inputOpened, chunksRead, disk>>

stageVars == <<nChunks, chunkChan, resultChan, senderDropped, reader, consumer, items, mutating>>

dataVars == <<added, segments, segment_values, saved, treeInserted, project, received>>

pipeVars == <<pc, result, max_threads, poolSize, outKind, ioVars, stageVars, dataVars>>

calcVars == <<data, calcPc, minmax, sep, res, information>>

fileVars == <<fileState, tableSize, file, saves, readResult>>

triVars == <<triPc, used, indices_len, edges, found, taken>>

libVars == <<fileVars, triVars>>

vars == <<cacheVars, treeVars, segVars, pipeVars, calcVars, libVars>>

(***************************************************************************)
(* Helpers on sequences and functions                                      *)
(***************************************************************************)
Range(s) == {s[i] : i \in DOMAIN s}

Without(s, x) == SelectSeq(s, LAMBDA y : y # x)

Restrict(f, S) == [k \in S |-> f[k]]

Put(f, k, v) == [x \in (DOMAIN f) \cup {k} |-> IF x = k THEN v ELSE f[x]]

RECURSIVE SumOver(_, _)
SumOver(S, f) ==
    IF S = {} THEN 0
    ELSE LET x == CHOOSE y \in S : TRUE IN f[x] + SumOver(S \ {x}, f)

(***************************************************************************)
(* Cache.  byte-budgeted store of buffers keyed by an opaque handle.       *)
(***************************************************************************)
MaxKeys == 2          \* keys 1..MaxKeys
MaxBytes == 3         \* bytes appended in one run, over all keys
BudgetBytes == 2      \* Cache::new(budget_bytes), scaled to the model

Keys == 1..MaxKeys
Byte == {0, 1}
Chunks == {<<b>> : b \in Byte} \cup {<<a, b>> : a \in Byte, b \in Byte}

NoRet == [op |-> "none", key |-> 0, data |-> <<>>, spilled |-> FALSE]

CacheNew == [entries |-> <<>>, stored |-> <<>>, lru |-> <<>>]

Created(c) == (DOMAIN c.entries) \cup (DOMAIN c.stored)

ResidentBytes(c) == SumOver(DOMAIN c.entries, [k \in DOMAIN c.entries |-> Len(c.entries[k])])

\* an evict() that spills the most recently used entry first
RECURSIVE EvictNewestFirst(_)
EvictNewestFirst(c) ==
    IF ResidentBytes(c) <= BudgetBytes \/ c.lru = <<>> THEN c
    ELSE LET k == c.lru[Len(c.lru)] IN
         EvictNewestFirst([entries |-> Restrict(c.entries, DOMAIN c.entries \ {k}),
                           stored  |-> Put(c.stored, k, c.entries[k]),
                           lru     |-> SubSeq(c.lru, 1, Len(c.lru) - 1)])

\* evict(): spill least-recently-used entries until the budget holds again
RECURSIVE Evict(_)
Evict(c) ==
    IF ResidentBytes(c) <= BudgetBytes \/ c.lru = <<>> THEN c
    ELSE LET k == Head(c.lru) IN
         Evict([entries |-> Restrict(c.entries, DOMAIN c.entries \ {k}),
                stored  |-> Put(c.stored, k, c.entries[k]),
                lru     |-> Tail(c.lru)])

\* a spilled entry re-admitted as a fresh buffer, its file content not reloaded
AdmitWithoutReload(c, k) ==
    IF k \in DOMAIN c.entries
    THEN [c EXCEPT !.lru = Append(Without(c.lru, k), k)]
    ELSE [entries |-> Put(c.entries, k, <<>>),
          stored  |-> Restrict(c.stored, DOMAIN c.stored \ {k}),
          lru     |-> Append(c.lru, k)]

\* the entry made resident and most recently used (reloaded when spilled)
Admit(c, k) ==
    IF k \in DOMAIN c.entries
    THEN [c EXCEPT !.lru = Append(Without(c.lru, k), k)]
    ELSE [entries |-> Put(c.entries, k, c.stored[k]),
          stored  |-> Restrict(c.stored, DOMAIN c.stored \ {k}),
          lru     |-> Append(c.lru, k)]

CacheGetOrCreate(c, k) ==
    IF k \in Created(c) THEN c
    ELSE [c EXCEPT !.entries = Put(c.entries, k, <<>>), !.lru = Append(c.lru, k)]

CacheAppend(c, k, d) ==
    LET a == Admit(c, k) IN
    Evict([a EXCEPT !.entries[k] = a.entries[k] \o d])

\* read(handle): the owned buffer, and the cache after re-admission
CacheReadData(c, k) == Admit(c, k).entries[k]

CacheRead(c, k) == Evict(Admit(c, k))

(***************************************************************************)
(* Tree.  The octree of Tree::insert.  A node is named by its path from    *)
(* the root (the octant taken at each level); its cube follows from the    *)
(* path.  Positions are cells of an integer grid and are pairwise distinct.*)
(***************************************************************************)
MAX_LEAF_SIZE == 1    \* project::MAX_LEAF_SIZE (1 << 15), scaled to the model
MaxTreePoints == 3    \* Tree::insert calls in one run
TreeDepth == 2        \* the root cube has edge 2^TreeDepth cells

RootSize == 2 ^ TreeDepth

TreePositions == {<<x, y, z>> : x \in 0..3, y \in {0, 3}, z \in {0, 3}}

NodeSize(path) == RootSize \div (2 ^ Len(path))

RECURSIVE Corner(_)
Corner(path) ==
    IF path = <<>> THEN <<0, 0, 0>>
    ELSE LET up == SubSeq(path, 1, Len(path) - 1)
             c == Corner(up)
             h == NodeSize(path)
             i == path[Len(path)]
         IN <<c[1] + h * (i % 2), c[2] + h * ((i \div 2) % 2), c[3] + h * (i \div 4)>>

\* the octant of position p in the node at path: each axis is compared
\* against the node's center
Octant(path, p) ==
    LET c == Corner(path)
        h == NodeSize(path) \div 2
    IN (IF p[1] >= c[1] + h THEN 1 ELSE 0)
       + (IF p[2] >= c[2] + h THEN 2 ELSE 0)
       + (IF p[3] >= c[3] + h THEN 4 ELSE 0)

InCube(p, path) ==
    LET c == Corner(path)
        s == NodeSize(path)
    IN \A a \in 1..3 : c[a] <= p[a] /\ p[a] < c[a] + s

LeafNode(pts) == [leaf |-> TRUE, points |-> pts]

BranchNode == [leaf |-> FALSE, points |-> <<>>]

TreeNew == (<<>> :> LeafNode(<<>>))

\* a leaf that takes one point more than MAX_LEAF_SIZE
LeafHasRoomOffByOne(node) == Len(node.points) <= MAX_LEAF_SIZE

LeafHasRoom(node) == Len(node.points) < MAX_LEAF_SIZE

\* Node::insert on the node at path; a full leaf becomes a branch, its
\* buffered points are re-inserted by octant, then the new point follows
RECURSIVE InsertAt(_, _, _)
RECURSIVE InsertAll(_, _, _)
InsertAll(t, path, pts) ==
    IF pts = <<>> THEN t
    ELSE InsertAll(InsertAt(t, path, Head(pts)), path, Tail(pts))

\* a split that forgets the first buffered point
SplitLeafDropsPoint(t, path) ==
    InsertAll([t EXCEPT ![path] = BranchNode], path, Tail(t[path].points))

SplitLeaf(t, path) ==
    InsertAll([t EXCEPT ![path] = BranchNode], path, t[path].points)

InsertAt(t, path, p) ==
    IF t[path].leaf
    THEN IF LeafHasRoom(t[path])
         THEN [t EXCEPT ![path].points = Append(@, p)]
         ELSE InsertAt(SplitLeaf(t, path), path, p)
    ELSE LET child == Append(path, Octant(path, p))
             t1 == IF child \in DOMAIN t THEN t ELSE Put(t, child, LeafNode(<<>>))
         IN InsertAt(t1, child, p)

TreeInsert(t, p) == InsertAt(t, <<>>, p)

IsPrefix(a, b) == Len(a) <= Len(b) /\ SubSeq(b, 1, Len(a)) = a

LeavesBelow(t, path) == {l \in DOMAIN t : t[l].leaf /\ IsPrefix(path, l)}

LeafCount(t, path) ==
    LET L == LeavesBelow(t, path) IN SumOver(L, [l \in L |-> Len(t[l].points)])

PointsBelow(t, path) == UNION {Range(t[l].points) : l \in LeavesBelow(t, path)}

(***************************************************************************)
(* Tree::flatten.  The leaves keep their points in the Cache, under the    *)
(* node's path as key; flatten walks the tree depth-first, children before *)
(* their parent, numbers the nodes and reads every leaf's buffer.          *)
(***************************************************************************)
MaxFlattens == 2      \* flatten calls on one tree

\* the positions inserted before a flatten: one layer of the grid
FlattenPositions == {p \in TreePositions : p[3] = 0}

\* the entry of a node that is no longer a leaf is destroyed
CacheDrop(c, k) ==
    [entries |-> Restrict(c.entries, DOMAIN c.entries \ {k}),
     stored  |-> Restrict(c.stored, DOMAIN c.stored \ {k}),
     lru     |-> Without(c.lru, k)]

BufferedPoints(t, l) == IF l \in DOMAIN t /\ t[l].leaf THEN t[l].points ELSE <<>>

\* a split retrieves the leaf's points from the Cache and gives up its entry
RECURSIVE CacheSplit(_, _)
CacheSplit(c, L) ==
    IF L = {} THEN c
    ELSE LET l == CHOOSE x \in L : TRUE
         IN CacheSplit(CacheDrop(CacheRead(c, l), l), L \ {l})

\* the points a leaf gained are appended to its entry
RECURSIVE CacheStore(_, _, _, _)
CacheStore(c, t, t2, L) ==
    IF L = {} THEN c
    ELSE LET l == CHOOSE x \in L : TRUE
             gained == SubSeq(t2[l].points, Len(BufferedPoints(t, l)) + 1,
                              Len(t2[l].points))
         IN CacheStore(CacheAppend(CacheGetOrCreate(c, l), l, gained), t, t2, L \ {l})

\* the Cache after the insert that took the tree from t to t2
CacheAfterInsert(c, t, t2) ==
    LET split == {l \in DOMAIN t : t[l].leaf /\ ~t2[l].leaf}
        grown == {l \in DOMAIN t2 : t2[l].leaf /\ t2[l].points # BufferedPoints(t, l)}
    IN CacheStore(CacheSplit(c, split), t, t2, grown)

\* a comes before b in the depth-first walk: a lies below b, or in an
\* earlier octant where their paths part
Before(a, b) ==
    \/ Len(a) > Len(b) /\ IsPrefix(b, a)
    \/ \E i \in 1..(IF Len(a) < Len(b) THEN Len(a) ELSE Len(b)) :
          /\ SubSeq(a, 1, i - 1) = SubSeq(b, 1, i - 1)
          /\ a[i] < b[i]

\* numbering that goes on from the nodes numbered by earlier flattens
FirstIndexContinued(t, done) == done * Cardinality(DOMAIN t)

\* every flatten numbers the nodes from 0
FirstIndex(t, done) == 0

\* numbering on the way down: a node before the nodes below it
NodeIndexParentFirst(t, path, first) ==
    first + Cardinality({q \in DOMAIN t :
                            \/ Len(q) < Len(path) /\ IsPrefix(q, path)
                            \/ Before(q, path) /\ ~IsPrefix(path, q)})

\* numbering on the way up: the nodes the walk has left before this one
NodeIndex(t, path, first) == first + Cardinality({q \in DOMAIN t : Before(q, path)})

\* the nodes in the order flatten visits them
RECURSIVE WalkOrder(_, _)
WalkOrder(t, S) ==
    IF S = {} THEN <<>>
    ELSE LET n == CHOOSE x \in S : \A y \in S : ~Before(y, x)
         IN <<n>> \o WalkOrder(t, S \ {n})

\* the buffers written for the nodes of walk, each leaf's read from the
\* Cache, and the Cache after these reads
RECURSIVE FlattenNodes(_, _, _, _, _)
FlattenNodes(c, t, walk, first, out) ==
    IF walk = <<>> THEN [cache |-> c, buffers |-> out]
    ELSE LET n == Head(walk)
             h == CacheGetOrCreate(c, n)
         IN IF t[n].leaf
            THEN FlattenNodes(CacheRead(h, n), t, Tail(walk), first,
                              Put(out, NodeIndex(t, n, first), CacheReadData(h, n)))
            ELSE FlattenNodes(c, t, Tail(walk), first,
                              Put(out, NodeIndex(t, n, first), <<>>))

\* flatten: the node topology of the Project and the per-node buffers
TreeFlatten(c, t, first) ==
    LET f == FlattenNodes(c, t, WalkOrder(t, DOMAIN t), first, <<>>)
    IN [cache |-> f.cache,
        container |-> [root |-> [n \in DOMAIN t |->
                                    [index |-> NodeIndex(t, n, first), leaf |-> t[n].leaf]],
                       buffers |-> f.buffers]]

(***************************************************************************)
(* Segmenter.  Streaming connected-component labelling by height slice,    *)
(* and the hand-off of import: segments(), shuffle, enumerate, calculate.  *)
(* A position is <<x, y>>: x horizontal, y the height.  A point is named   *)
(* by its place in the stream.                                             *)
(***************************************************************************)
MaxStream == 3            \* points in the stream
MaxMinSegmentSize == 2    \* Settings.min_segment_size is drawn from 1..this

SegPositions == (0..1) \X (0..2)

SliceWidths == {1}        \* Settings.segmenting_slice_width (its default)

MaxDistances == {1, 2}    \* Settings.segmenting_max_distance (its default, and a wider one)

SettingsSet ==
    [min_segment_size : 1..MaxMinSegmentSize,
     segmenting_slice_width : SliceWidths,
     segmenting_max_distance : MaxDistances]

Abs(n) == IF n < 0 THEN -n ELSE n

MinOf(S) == CHOOSE m \in S : \A n \in S : m <= n

Slice(p, st) == p[2] \div st.segmenting_slice_width

Dist2(p, q) == (p[1] - q[1]) * (p[1] - q[1]) + (p[2] - q[2]) * (p[2] - q[2])

\* within segmenting_max_distance, in the same or an adjacent slice
Near(p, q, st) ==
    /\ Abs(Slice(p, st) - Slice(q, st)) <= 1
    /\ Dist2(p, q) <= st.segmenting_max_distance * st.segmenting_max_distance

SegmenterNew == [segments |-> <<>>, next |-> 1, joined |-> {}]

\* the point lists of the segments S, in ascending identifier order
RECURSIVE ConcatSegments(_, _)
ConcatSegments(segs, S) ==
    IF S = {} THEN <<>>
    ELSE LET m == MinOf(S) IN segs[m] \o ConcatSegments(segs, S \ {m})

\* the segments holding a previously seen point in range of p
NearSegments(sg, pts, p, st) ==
    {s \in DOMAIN sg.segments :
        \E j \in Range(sg.segments[s]) : Near(pts[j], p, st)}

\* add_point that joins the first segment in range and merges nothing
AddPointToFirstNear(sg, pts, i, p, st) ==
    LET near == NearSegments(sg, pts, p, st) IN
    IF near = {}
    THEN [segments |-> Put(sg.segments, sg.next, <<i>>),
          next |-> sg.next + 1,
          joined |-> near]
    ELSE [segments |-> [sg.segments EXCEPT ![MinOf(near)] = Append(@, i)],
          next |-> sg.next,
          joined |-> near]

\* Segmenter::add_point: point number i at position p, pts the positions of
\* the points seen before
AddPointTo(sg, pts, i, p, st) ==
    LET near == NearSegments(sg, pts, p, st) IN
    IF near = {}
    THEN [segments |-> Put(sg.segments, sg.next, <<i>>),
          next |-> sg.next + 1,
          joined |-> near]
    ELSE LET keep == MinOf(near)
             rest == (DOMAIN sg.segments) \ near
         IN [segments |-> Put(Restrict(sg.segments, rest), keep,
                              Append(ConcatSegments(sg.segments, near), i)),
             next |-> sg.next,
             joined |-> near]

\* a filter that also drops the segments of exactly min_segment_size points
SegmentKeptStrictlyLarger(points, st) == Len(points) > st.min_segment_size

SegmentKept(points, st) == Len(points) >= st.min_segment_size

\* Segmenter::segments: the segments of at least min_segment_size points,
\* in ascending identifier order
RECURSIVE SegmentsOf(_, _, _)
SegmentsOf(segs, S, st) ==
    IF S = {} THEN <<>>
    ELSE LET m == MinOf(S)
             tl == SegmentsOf(segs, S \ {m}, st)
         IN IF SegmentKept(segs[m], st) THEN <<segs[m]>> \o tl ELSE tl

SegmenterSegments(sg, st) == SegmentsOf(sg.segments, DOMAIN sg.segments, st)

\* a shuffle that draws with repetition: a segment may come twice, another not
ShufflesWithRepetition(list) ==
    {[i \in DOMAIN list |-> list[f[i]]] : f \in [DOMAIN list -> DOMAIN list]}

\* segments.shuffle(rng): every order the generator can produce
Shuffles(list) ==
    {[i \in DOMAIN list |-> list[pi[i]]] : pi \in Permutations(DOMAIN list)}

\* an identifier that is the 0-based place itself
SegmentIndexZeroBased(index) == index

\* NonZeroU32::new(index as u32 + 1) for the 0-based index of enumerate()
SegmentIndex(index) == index + 1

(***************************************************************************)
(* calculations::calculate.  A position is <<x, y, z>> on an integer grid, *)
(* y the height.  A quotient of two floats is kept as the pair of its      *)
(* numerator and denominator: 0 / 0 is the NaN the division gives.         *)
(***************************************************************************)
MaxCalcPoints == 3    \* points of the segment given to calculate
MAX_NEIGHBORS == 2    \* calculations::MAX_NEIGHBORS (64 - 1), scaled to the model
SliceTicks == 2       \* slice_width (0.05), in cells of the height grid
NeighborsMaxDistance == 10  \* the cutoff given to k_nearest (1000.0), scaled

CalcXs == {0, 1, 3}

CalcHeights == {0, 1, 2, 3}

CalcPositions == {<<x, y, 0>> : x \in CalcXs, y \in CalcHeights}

SegmentData == UNION {[1..n -> CalcPositions] : n \in 1..MaxCalcPoints}

\* segments with several points in each of two slices, an empty slice
\* between them
MaxProfilePoints == 5

ProfileData == [1..MaxProfilePoints -> {<<x, y, 0>> : x \in CalcXs, y \in {0, 4}}]

Quotient(a, b) == [num |-> a, den |-> b]

\* the loop over data.iter().skip(1): min and max of the heights
RECURSIVE MinMaxFrom(_, _, _, _)
MinMaxFrom(d, i, min, max) ==
    IF i > Len(d) THEN <<min, max>>
    ELSE IF d[i][2] < min THEN MinMaxFrom(d, i + 1, d[i][2], max)
    ELSE IF d[i][2] > max THEN MinMaxFrom(d, i + 1, min, d[i][2])
    ELSE MinMaxFrom(d, i + 1, min, max)

MinMax(d) == MinMaxFrom(d, 2, d[1][2], d[1][2])

\* a table with one entry for each started slice and none to spare
SliceCountNoSpare(height) == (height + SliceTicks - 1) \div SliceTicks

\* ((height / slice_width).ceil() as usize) + 1
SliceCount(height) == ((height + SliceTicks - 1) \div SliceTicks) + 1

\* ((pos[Y] - min) / slice_width) as usize
SliceIndex(y, min) == (y - min) \div SliceTicks

PointsInSlice(d, min, s) == {i \in DOMAIN d : SliceIndex(d[i][2], min) = s}

\* means[idx], variance[idx], slices[idx] on a Vec of len entries: an index
\* past the end panics
InTable(idx, len) == idx < len

\* the two loops over data that fill means and variance stay in the tables
SliceTablesFilled(d) ==
    LET mm == MinMax(d)
    IN \A i \in DOMAIN d :
          InTable(SliceIndex(d[i][2], mm[1]), SliceCount(mm[2] - mm[1]))

\* count times the summed squared offset of the slice's points from their
\* mean, over the two horizontal axes: n * sum |mean - pos|^2
Scatter(d, P) ==
    LET n == Cardinality(P)
        sx == SumOver(P, [i \in P |-> d[i][1]])
        sz == SumOver(P, [i \in P |-> d[i][3]])
        sq == SumOver(P, [i \in P |-> d[i][1] * d[i][1] + d[i][3] * d[i][3]])
    IN n * sq - sx * sx - sz * sz

\* variance[s] / sqrt(count) of a slice is Scatter / count^(3/2).  An empty
\* slice and every slice when max_var is 0.0 have the percent NaN, which
\* map_to_u32 casts to 0; a slice without dispersion maps to 0; otherwise
\* the mapped value is greater than u32::MAX / 3 when the dispersion is at
\* least a third of every slice's (the f32 quotient of exactly one third is
\* rounded up, and its mapped value lies above u32::MAX / 3)
ExceedsThird(d, min, s) ==
    LET P == PointsInSlice(d, min, s)
        n == Cardinality(P)
        t == Scatter(d, P)
    IN /\ n > 0
       /\ t > 0
       /\ \A m \in 0..(SliceCount(MinMax(d)[2] - min) - 1) :
             LET Q == PointsInSlice(d, min, m)
                 k == Cardinality(Q)
                 u == Scatter(d, Q)
             IN k > 0 => 9 * t * t * k * k * k >= u * u * n * n * n

\* the last slice that qualifies in place of the first
TrunkCrownSepLast(d) ==
    LET mm == MinMax(d)
        S == {s \in 0..(SliceCount(mm[2] - mm[1]) - 1) : ExceedsThird(d, mm[1], s)}
    IN IF S = {} THEN 0 ELSE CHOOSE m \in S : \A n \in S : n <= m

\* mapped[s] = map_to_u32(variance[s] / max_var), kept as the square of
\* that percent; 0 for the NaN of an empty slice or of max_var = 0.0
Mapped(d, s) ==
    LET mm == MinMax(d)
        slices == 0..(SliceCount(mm[2] - mm[1]) - 1)
        count == [m \in slices |-> Cardinality(PointsInSlice(d, mm[1], m))]
        scatter == [m \in slices |-> Scatter(d, PointsInSlice(d, mm[1], m))]
        filled == {m \in slices : count[m] > 0}
        top == CHOOSE m \in filled : \A q \in filled :
                    scatter[m] * scatter[m] * count[q] * count[q] * count[q]
                        >= scatter[q] * scatter[q] * count[m] * count[m] * count[m]
    IN IF s \notin filled \/ scatter[top] = 0 THEN Quotient(0, 1)
       ELSE Quotient(scatter[s] * scatter[s] * count[top] * count[top] * count[top],
                     scatter[top] * scatter[top] * count[s] * count[s] * count[s])

\* mapped.iter().enumerate().find(..).map(..).unwrap_or(0)
TrunkCrownSep(d) ==
    LET mm == MinMax(d)
        S == {s \in 0..(SliceCount(mm[2] - mm[1]) - 1) : ExceedsThird(d, mm[1], s)}
    IN IF S = {} THEN 0 ELSE MinOf(S)

\* SegmentInformation: the two RelativeHeight values
Information(d) ==
    LET mm == MinMax(d)
        height == mm[2] - mm[1]
        trunk_crown_sep == mm[1] + SliceTicks * TrunkCrownSep(d)
        trunk_heigth == trunk_crown_sep - mm[1]
        crown_heigth == mm[2] - trunk_crown_sep
    IN [trunk_height |-> [absolute |-> trunk_heigth,
                          percent |-> Quotient(trunk_heigth, height)],
        crown_height |-> [absolute |-> crown_heigth,
                          percent |-> Quotient(crown_heigth, height)]]

DistanceSquared(p, q) ==
    (p[1] - q[1]) * (p[1] - q[1]) + (p[2] - q[2]) * (p[2] - q[2])
       + (p[3] - q[3]) * (p[3] - q[3])

RECURSIVE Ascending(_)
Ascending(s) ==
    IF s = <<>> THEN <<>>
    ELSE LET m == CHOOSE i \in DOMAIN s : \A j \in DOMAIN s : s[i] <= s[j]
         IN <<s[m]>> \o Ascending(SubSeq(s, 1, m - 1) \o SubSeq(s, m + 1, Len(s)))

\* NeighborsTree::get: the distances of the nearest points within the
\* cutoff, nearest first, at most MAX_NEIGHBORS of them; the point itself
\* is among the points searched
Neighbors(d, i) ==
    LET all == [j \in DOMAIN d |-> DistanceSquared(d[i], d[j])]
        near == Ascending(SelectSeq(all, LAMBDA x : x <= NeighborsMaxDistance))
    IN SubSeq(near, 1, IF Len(near) < MAX_NEIGHBORS THEN Len(near) ELSE MAX_NEIGHBORS)

\* (1.0 / 3.0) * sum(neighbors[1..]) / (neighbors.len() - 1)
Size(neighbors) ==
    LET rest == [k \in 1..(Len(neighbors) - 1) |-> neighbors[k + 1]]
    IN Quotient(SumOver(DOMAIN rest, rest), 3 * (Len(neighbors) - 1))

\* the Point built for data[i]
ComputedPoint(d, i, segment) ==
    LET mm == MinMax(d) IN
    [position |-> d[i],
     size |-> Size(Neighbors(d, i)),
     segment |-> segment,
     slice |-> Mapped(d, SliceIndex(d[i][2], mm[1])),
     sub_index |-> Quotient(d[i][2] - mm[1], mm[2] - mm[1])]

NoInformation ==
    [trunk_height |-> [absolute |-> 0, percent |-> Quotient(0, 1)],
     crown_height |-> [absolute |-> 0, percent |-> Quotient(0, 1)]]

(***************************************************************************)
(* run / import.  The main thread, the reader and the segment consumer of  *)
(* the first rayon::join, the calculate workers and the tree consumer of   *)
(* the second.  A chunk is named by its number, an emitted segment by the  *)
(* ordinal the Segmenter returned it at.                                   *)
(***************************************************************************)
MaxThreads == 2           \* Command.max_threads is drawn from 0..this
MaxCores == 2             \* logical cores of the machine, 1..this
MaxChunks == 6            \* chunks the point source yields
MaxSegments == 3          \* segments the Segmenter emits
ChunkChannelCapacity == 4     \* crossbeam::channel::bounded(4)
ResultChannelCapacity == 2    \* crossbeam::channel::bounded(2)

\* an empty input, one that fits the channel, one that fills it
ChunkCounts == {0, 1, MaxChunks}

OutputKinds == {"absent", "file", "empty_dir", "non_empty_dir"}

Selections == {"given", "picked", "cancelled"}

\* points in a chunk, in a segment: fixed patterns with empty, short and
\* longer ones
ChunkLength(c) == c % 3

SegmentLength(sg) == 1 + (sg % 2)

\* the points of the first n segments
EmittedSize(n) == SumOver(1..n, [sg \in 1..n |-> SegmentLength(sg)])

\* ThreadPoolBuilder::num_threads(n): 0 lets rayon take the logical cores
PoolThreads(n, cores) == IF n = 0 THEN cores ELSE n

\* run, up to the pool: the error it returns, or "ok"
RunChecks(inSel, outSel, threads) ==
    IF inSel = "cancelled" THEN "NoInputFile"
    ELSE IF outSel = "cancelled" THEN "NoOutputFolder"
    ELSE IF threads = 1 THEN "NotEnoughThreads"
    ELSE "ok"

\* Writer::setup(&output): the output path must not be a file, and must be
\* empty when it is a directory
WriterSetup(kind) ==
    IF kind = "file" THEN "OutputFolderIsFile"
    ELSE IF kind = "non_empty_dir" THEN "OutputFolderIsNotEmpty"
    ELSE "ok"

\* an unbounded channel: send never waits
ChannelUnbounded(ch, cap) == TRUE

\* Sender::send on a bounded channel returns once the message is queued
ChannelHasRoom(ch, cap) == Len(ch) < cap

\* rayon::join(a, b): b runs beside a when another worker can steal it, and
\* after a on the same worker otherwise
CanStartB(pool, aDone) == pool >= 2 \/ aDone

\* a join that returns as soon as its first closure has returned
JoinReturnsAfterFirst(aDone, bDone) == aDone

\* rayon::join returns when both closures have returned
JoinReturns(aDone, bDone) == aDone /\ bDone

\* vec![String::from("Trunk"), String::from("Crown")]
segments_information == <<"Trunk", "Crown">>

\* the two values calculate returns for a segment
TrunkHeight(sg) == <<"trunk", sg>>

CrownHeight(sg) == <<"crown", sg>>

\* Project::empty(), the two segment tables of it
ProjectEmpty == [segment_information |-> <<>>, segment_values |-> <<>>]

\* the Project that Tree::flatten returns: the segment labels and values
\* it was given
FlattenProject(labels, values) ==
    [segment_information |-> labels, segment_values |-> values]

\* Project::segment(index): the slice offset .. offset + len
ProjectSegment(p, index) ==
    LET offset == (index - 1) * Len(p.segment_information)
    IN [k \in 1..Len(p.segment_information) |-> p.segment_values[offset + k - 1]]

\* workers that can run items of the parallel iterator at once
CalcWorkers(pool) == IF pool >= 2 THEN pool - 1 ELSE 1

\* the errors laz.read can hand back through ?
ReaderErrors == {"InvalidFile", "CorruptFile", "LasZipError"}

IdleReader == [pc |-> "idle", next |-> 1, hand |-> 0, err |-> "none"]

IdleConsumer == [pc |-> "idle", cur |-> 0, left |-> 0]

Fail(err) ==
    /\ pc' = "failed"
    /\ result' = err

(***************************************************************************)
(* Cache actions                                                           *)
(***************************************************************************)
TheCache == [entries |-> entries, stored |-> stored, lru |-> lru]

SetCache(c) ==
    /\ entries' = c.entries
    /\ stored' = c.stored
    /\ lru' = c.lru

TotalWritten == SumOver(DOMAIN written, [k \in DOMAIN written |-> Len(written[k])])

GetOrCreate(k) ==
    /\ SetCache(CacheGetOrCreate(TheCache, k))
    /\ written' = IF k \in DOMAIN written THEN written ELSE Put(written, k, <<>>)
    /\ ret' = [NoRet EXCEPT !.op = "get_or_create", !.key = k]
    /\ UNCHANGED <<treeVars, segVars, pipeVars, calcVars, libVars>>

AppendData(k, d) ==
    /\ k \in Created(TheCache)
    /\ TotalWritten + Len(d) <= MaxBytes
    /\ SetCache(CacheAppend(TheCache, k, d))
    /\ written' = [written EXCEPT ![k] = @ \o d]
    /\ ret' = [NoRet EXCEPT !.op = "append", !.key = k]
    /\ UNCHANGED <<treeVars, segVars, pipeVars, calcVars, libVars>>

ReadData(k) ==
    /\ k \in Created(TheCache)
    /\ SetCache(CacheRead(TheCache, k))
    /\ ret' = [op |-> "read", key |-> k, data |-> CacheReadData(TheCache, k),
               spilled |-> k \in DOMAIN stored]
    /\ UNCHANGED <<written, treeVars, segVars, pipeVars, calcVars, libVars>>

CacheInit ==
    /\ entries = CacheNew.entries
    /\ stored = CacheNew.stored
    /\ lru = CacheNew.lru
    /\ written = <<>>
    /\ ret = NoRet

CacheNext ==
    \/ \E k \in Keys : GetOrCreate(k)
    \/ \E k \in Keys, d \in Chunks : AppendData(k, d)
    \/ \E k \in Keys : ReadData(k)

(***************************************************************************)
(* Tree actions                                                            *)
(***************************************************************************)
Insert(p) ==
    /\ Len(inserted) < MaxTreePoints
    /\ p \notin Range(inserted)
    /\ tree' = TreeInsert(tree, p)
    /\ inserted' = Append(inserted, p)
    /\ UNCHANGED flat
    /\ UNCHANGED <<cacheVars, segVars, pipeVars, calcVars, libVars>>

TreeInit ==
    /\ tree = TreeNew
    /\ inserted = <<>>
    /\ flat = <<>>

\* Tree::insert with the leaf buffers kept in the Cache
InsertCached(p) ==
    /\ flat = <<>>
    /\ Len(inserted) < MaxTreePoints
    /\ p \notin Range(inserted)
    /\ tree' = TreeInsert(tree, p)
    /\ inserted' = Append(inserted, p)
    /\ SetCache(CacheAfterInsert(TheCache, tree, TreeInsert(tree, p)))
    /\ UNCHANGED <<flat, written, ret>>
    /\ UNCHANGED <<segVars, pipeVars, calcVars, libVars>>

\* the finished tree is flattened, and may be flattened again
Flatten ==
    /\ Len(flat) < MaxFlattens
    /\ LET f == TreeFlatten(TheCache, tree, FirstIndex(tree, Len(flat)))
       IN /\ flat' = Append(flat, f.container)
          /\ SetCache(f.cache)
    /\ UNCHANGED <<tree, inserted, written, ret>>
    /\ UNCHANGED <<segVars, pipeVars, calcVars, libVars>>

TreeNext == \E p \in TreePositions : Insert(p)

(***************************************************************************)
(* Segmenter actions                                                       *)
(***************************************************************************)
AddPoint(p) ==
    /\ segPhase = "adding"
    /\ Len(stream) < MaxStream
    /\ segmenter' = AddPointTo(segmenter, stream, Len(stream) + 1, p, settings)
    /\ stream' = Append(stream, p)
    /\ UNCHANGED <<settings, segPhase, emitted, pointSegment, calculated>>
    /\ UNCHANGED <<cacheVars, treeVars, pipeVars, calcVars, libVars>>

\* the stream ends: let mut segments = segmenter.segments(..)
Finalize ==
    /\ segPhase = "adding"
    /\ emitted' = SegmenterSegments(segmenter, settings)
    /\ segPhase' = "finalized"
    /\ UNCHANGED <<settings, stream, segmenter, pointSegment, calculated>>
    /\ UNCHANGED <<cacheVars, treeVars, pipeVars, calcVars, libVars>>

Shuffle ==
    /\ segPhase = "finalized"
    /\ emitted' \in Shuffles(emitted)
    /\ segPhase' = "shuffled"
    /\ UNCHANGED <<settings, stream, segmenter, pointSegment, calculated>>
    /\ UNCHANGED <<cacheVars, treeVars, pipeVars, calcVars, libVars>>

\* one item of segments.into_par_iter().enumerate(): the items run in any
\* order; every computed point carries the item's identifier
CalculateSegment(i) ==
    /\ segPhase = "shuffled"
    /\ i \in (DOMAIN emitted) \ calculated
    /\ pointSegment' = [k \in (DOMAIN pointSegment) \cup Range(emitted[i]) |->
                           IF k \in Range(emitted[i]) THEN SegmentIndex(i - 1)
                           ELSE pointSegment[k]]
    /\ calculated' = calculated \cup {i}
    /\ UNCHANGED <<settings, stream, segmenter, segPhase, emitted>>
    /\ UNCHANGED <<cacheVars, treeVars, pipeVars, calcVars, libVars>>

SegInit ==
    /\ settings \in SettingsSet
    /\ stream = <<>>
    /\ segmenter = SegmenterNew
    /\ segPhase = "adding"
    /\ emitted = <<>>
    /\ pointSegment = <<>>
    /\ calculated = {}

SegIdle ==
    /\ settings = CHOOSE st \in SettingsSet : TRUE
    /\ stream = <<>>
    /\ segmenter = SegmenterNew
    /\ segPhase = "adding"
    /\ emitted = <<>>
    /\ pointSegment = <<>>
    /\ calculated = {}

(***************************************************************************)
(* calculate actions                                                       *)
(***************************************************************************)
\* calculate(data, segment) is entered: the neighbours tree, min and max
CalcBegin ==
    /\ calcPc = "idle"
    /\ calcPc' = "slices"
    /\ minmax' = MinMax(data)
    /\ UNCHANGED <<data, sep, res, information>>
    /\ UNCHANGED <<cacheVars, treeVars, segVars, pipeVars, libVars>>

\* the slice profile and the trunk/crown separation
CalcSlices ==
    /\ calcPc = "slices"
    /\ IF SliceTablesFilled(data)
       THEN sep' = TrunkCrownSep(data) /\ calcPc' = "points"
       ELSE sep' = sep /\ calcPc' = "panicked"
    /\ UNCHANGED <<data, minmax, res, information>>
    /\ UNCHANGED <<cacheVars, treeVars, segVars, pipeVars, libVars>>

\* one step of (0..data.len()).map(..): the Point of the next position
CalcPoint ==
    /\ calcPc = "points"
    /\ Len(res) < Len(data)
    /\ IF InTable(SliceIndex(data[Len(res) + 1][2], minmax[1]),
                  SliceCount(minmax[2] - minmax[1]))
       THEN res' = Append(res, ComputedPoint(data, Len(res) + 1, 1)) /\ calcPc' = calcPc
       ELSE res' = res /\ calcPc' = "panicked"
    /\ UNCHANGED <<data, minmax, sep, information>>
    /\ UNCHANGED <<cacheVars, treeVars, segVars, pipeVars, libVars>>

\* the map is collected; calculate returns res and the SegmentInformation
CalcReturn ==
    /\ calcPc = "points"
    /\ Len(res) = Len(data)
    /\ information' = Information(data)
    /\ calcPc' = "done"
    /\ UNCHANGED <<data, minmax, sep, res>>
    /\ UNCHANGED <<cacheVars, treeVars, segVars, pipeVars, libVars>>

CalcInit ==
    /\ data \in SegmentData
    /\ calcPc = "idle"
    /\ minmax = <<0, 0>>
    /\ sep = 0
    /\ res = <<>>
    /\ information = NoInformation

CalcInitProfile ==
    /\ data \in ProfileData
    /\ calcPc = "idle"
    /\ minmax = <<0, 0>>
    /\ sep = 0
    /\ res = <<>>
    /\ information = NoInformation

CalcIdle ==
    /\ data = <<>>
    /\ calcPc = "idle"
    /\ minmax = <<0, 0>>
    /\ sep = 0
    /\ res = <<>>
    /\ information = NoInformation

(***************************************************************************)
(* run / import actions                                                    *)
(***************************************************************************)
\* run: the dialogs, the thread check, the pool
Run ==
    /\ pc = "run"
    /\ \E inSel \in Selections, outSel \in Selections, cores \in 1..MaxCores :
          LET r == RunChecks(inSel, outSel, max_threads) IN
          IF r = "ok"
          THEN /\ pc' = "import"
               /\ poolSize' = PoolThreads(max_threads, cores)
               /\ UNCHANGED result
          ELSE /\ Fail(r)
               /\ UNCHANGED poolSize
    /\ UNCHANGED <<max_threads, outKind, ioVars, stageVars, dataVars>>
    /\ UNCHANGED <<cacheVars, treeVars, segVars, calcVars, libVars>>

\* import opening the input before it checks the output path
ImportSetupAfterOpen ==
    /\ pc = "import"
    /\ inputOpened' = TRUE
    /\ LET r == WriterSetup(outKind) IN
       IF r = "ok"
       THEN /\ pc' = "open"
            /\ disk' = disk \cup {<<"output", 0>>}
            /\ UNCHANGED result
       ELSE /\ Fail(r)
            /\ UNCHANGED disk
    /\ UNCHANGED <<max_threads, poolSize, outKind, chunksRead,
                   stageVars, dataVars>>
    /\ UNCHANGED <<cacheVars, treeVars, segVars, calcVars, libVars>>

\* import: Cache::new, Writer::setup(&output)?
ImportSetup ==
    /\ pc = "import"
    /\ LET r == WriterSetup(outKind) IN
       IF r = "ok"
       THEN /\ pc' = "open"
            /\ disk' = disk \cup {<<"output", 0>>}
            /\ UNCHANGED result
       ELSE /\ Fail(r)
            /\ UNCHANGED disk
    /\ UNCHANGED <<max_threads, poolSize, outKind, inputOpened, chunksRead,
                   stageVars, dataVars>>
    /\ UNCHANGED <<cacheVars, treeVars, segVars, calcVars, libVars>>

\* laz::Laz::new(&input)?, Segmenter::new, the first channel, and the join
ImportOpen ==
    /\ pc = "open"
    /\ inputOpened' = TRUE
    /\ \/ /\ Fail("InvalidFile")
          /\ UNCHANGED <<nChunks, reader>>
       \/ /\ \E n \in ChunkCounts : nChunks' = n
          /\ pc' = "stage1"
          /\ reader' = [IdleReader EXCEPT !.pc = "run"]
          /\ UNCHANGED result
    /\ UNCHANGED <<max_threads, poolSize, outKind, chunksRead, disk,
                   chunkChan, resultChan, senderDropped, consumer, items,
                   mutating, dataVars>>
    /\ UNCHANGED <<cacheVars, treeVars, segVars, calcVars, libVars>>

\* laz.read: the next chunk is decoded
ReaderRead ==
    /\ pc = "stage1"
    /\ reader.pc = "run"
    /\ reader.hand = 0
    /\ reader.next <= nChunks
    /\ reader' = [reader EXCEPT !.hand = reader.next, !.next = reader.next + 1]
    /\ chunksRead' = chunksRead + 1
    /\ UNCHANGED <<pc, result, max_threads, poolSize, outKind, inputOpened,
                   disk, nChunks, chunkChan, resultChan, senderDropped,
                   consumer, items, mutating, dataVars>>
    /\ UNCHANGED <<cacheVars, treeVars, segVars, calcVars, libVars>>

\* a reader that returns the error while its sender stays alive
ReaderFailKeepsSender ==
    /\ pc = "stage1"
    /\ reader.pc = "run"
    /\ reader.hand = 0
    /\ reader.next <= nChunks
    /\ \E e \in ReaderErrors :
          reader' = [reader EXCEPT !.pc = "done", !.err = e]
    /\ UNCHANGED <<pc, result, max_threads, poolSize, outKind, ioVars,
                   nChunks, chunkChan, resultChan, senderDropped, consumer,
                   items, mutating, dataVars>>
    /\ UNCHANGED <<cacheVars, treeVars, segVars, calcVars, libVars>>

\* laz.read fails on the next chunk: the closure returns the error and its
\* sender is dropped with it
ReaderFail ==
    /\ pc = "stage1"
    /\ reader.pc = "run"
    /\ reader.hand = 0
    /\ reader.next <= nChunks
    /\ \E e \in ReaderErrors :
          reader' = [reader EXCEPT !.pc = "done", !.err = e]
    /\ senderDropped' = TRUE
    /\ UNCHANGED <<pc, result, max_threads, poolSize, outKind, ioVars,
                   nChunks, chunkChan, resultChan, consumer, items, mutating,
                   dataVars>>
    /\ UNCHANGED <<cacheVars, treeVars, segVars, calcVars, libVars>>

\* sender.send(chunk).unwrap(): blocks while the channel is full
ReaderSend ==
    /\ pc = "stage1"
    /\ reader.pc = "run"
    /\ reader.hand # 0
    /\ ChannelHasRoom(chunkChan, ChunkChannelCapacity)
    /\ chunkChan' = Append(chunkChan, reader.hand)
    /\ reader' = [reader EXCEPT !.hand = 0]
    /\ UNCHANGED <<pc, result, max_threads, poolSize, outKind, ioVars,
                   nChunks, resultChan, senderDropped, consumer, items,
                   mutating, dataVars>>
    /\ UNCHANGED <<cacheVars, treeVars, segVars, calcVars, libVars>>

\* the source is exhausted: drop(sender)
ReaderFinish ==
    /\ pc = "stage1"
    /\ reader.pc = "run"
    /\ reader.hand = 0
    /\ reader.next > nChunks
    /\ reader' = [reader EXCEPT !.pc = "done"]
    /\ senderDropped' = TRUE
    /\ UNCHANGED <<pc, result, max_threads, poolSize, outKind, ioVars,
                   nChunks, chunkChan, resultChan, consumer, items, mutating,
                   dataVars>>
    /\ UNCHANGED <<cacheVars, treeVars, segVars, calcVars, libVars>>

\* the second closure of the first join starts
SegmentConsumerStart ==
    /\ pc = "stage1"
    /\ consumer.pc = "idle"
    /\ CanStartB(poolSize, reader.pc = "done")
    /\ consumer' = [consumer EXCEPT !.pc = "recv"]
    /\ UNCHANGED <<pc, result, max_threads, poolSize, outKind, ioVars,
                   nChunks, chunkChan, resultChan, senderDropped, reader,
                   items, mutating, dataVars>>
    /\ UNCHANGED <<cacheVars, treeVars, segVars, calcVars, libVars>>

\* for chunk in reciever
SegmentConsumerRecv ==
    /\ pc = "stage1"
    /\ consumer.pc = "recv"
    /\ chunkChan # <<>>
    /\ consumer' = [pc |-> "points", cur |-> Head(chunkChan),
                    left |-> ChunkLength(Head(chunkChan))]
    /\ chunkChan' = Tail(chunkChan)
    /\ UNCHANGED <<pc, result, max_threads, poolSize, outKind, ioVars,
                   nChunks, resultChan, senderDropped, reader, items,
                   mutating, dataVars>>
    /\ UNCHANGED <<cacheVars, treeVars, segVars, calcVars, libVars>>

\* segmenter.add_point(point, &mut cache) is entered
AddPointBegin ==
    /\ pc = "stage1"
    /\ consumer.pc = "points"
    /\ consumer.left > 0
    /\ consumer' = [consumer EXCEPT !.pc = "add_point"]
    /\ mutating' = mutating \cup {"segment_consumer"}
    /\ UNCHANGED <<pc, result, max_threads, poolSize, outKind, ioVars,
                   nChunks, chunkChan, resultChan, senderDropped, reader,
                   items, dataVars>>
    /\ UNCHANGED <<cacheVars, treeVars, segVars, calcVars, libVars>>

\* segmenter.add_point returns
AddPointEnd ==
    /\ pc = "stage1"
    /\ consumer.pc = "add_point"
    /\ consumer' = [consumer EXCEPT !.pc = "points", !.left = consumer.left - 1]
    /\ mutating' = mutating \ {"segment_consumer"}
    /\ added' = added + 1
    /\ UNCHANGED <<pc, result, max_threads, poolSize, outKind, ioVars,
                   nChunks, chunkChan, resultChan, senderDropped, reader,
                   items, segments, segment_values, saved, treeInserted,
                   project, received>>
    /\ UNCHANGED <<cacheVars, treeVars, segVars, calcVars, libVars>>

\* the chunk is used up: progress.step_by(l), next iteration
SegmentConsumerNext ==
    /\ pc = "stage1"
    /\ consumer.pc = "points"
    /\ consumer.left = 0
    /\ consumer' = [consumer EXCEPT !.pc = "recv", !.cur = 0]
    /\ UNCHANGED <<pc, result, max_threads, poolSize, outKind, ioVars,
                   nChunks, chunkChan, resultChan, senderDropped, reader,
                   items, mutating, dataVars>>
    /\ UNCHANGED <<cacheVars, treeVars, segVars, calcVars, libVars>>

\* a loop that ends as soon as the sender is dropped, chunks still queued
SegmentConsumerFinishEarly ==
    /\ pc = "stage1"
    /\ consumer.pc = "recv"
    /\ senderDropped
    /\ consumer' = [consumer EXCEPT !.pc = "done"]
    /\ UNCHANGED <<pc, result, max_threads, poolSize, outKind, ioVars,
                   nChunks, chunkChan, resultChan, senderDropped, reader,
                   items, mutating, dataVars>>
    /\ UNCHANGED <<cacheVars, treeVars, segVars, calcVars, libVars>>

\* the channel is empty and its sender dropped: the loop ends
SegmentConsumerFinish ==
    /\ pc = "stage1"
    /\ consumer.pc = "recv"
    /\ chunkChan = <<>>
    /\ senderDropped
    /\ consumer' = [consumer EXCEPT !.pc = "done"]
    /\ UNCHANGED <<pc, result, max_threads, poolSize, outKind, ioVars,
                   nChunks, chunkChan, resultChan, senderDropped, reader,
                   items, mutating, dataVars>>
    /\ UNCHANGED <<cacheVars, treeVars, segVars, calcVars, libVars>>

\* the first join returns and the reader's result is dropped unread
Stage1JoinIgnoresError ==
    /\ pc = "stage1"
    /\ JoinReturns(reader.pc = "done", consumer.pc = "done")
    /\ pc' = "segments"
    /\ UNCHANGED result
    /\ UNCHANGED <<max_threads, poolSize, outKind, ioVars, stageVars, dataVars>>
    /\ UNCHANGED <<cacheVars, treeVars, segVars, calcVars, libVars>>

\* the first join returns; .0? hands on the reader's error
Stage1Join ==
    /\ pc = "stage1"
    /\ JoinReturns(reader.pc = "done", consumer.pc = "done")
    /\ IF reader.err # "none"
       THEN Fail(reader.err)
       ELSE pc' = "segments" /\ UNCHANGED result
    /\ UNCHANGED <<max_threads, poolSize, outKind, ioVars, stageVars, dataVars>>
    /\ UNCHANGED <<cacheVars, treeVars, segVars, calcVars, libVars>>

\* segmenter.segments(&mut statistics, &mut cache) is entered
SegmentsBegin ==
    /\ pc = "segments"
    /\ pc' = "in_segments"
    /\ mutating' = mutating \cup {"main"}
    /\ UNCHANGED <<result, max_threads, poolSize, outKind, ioVars, nChunks,
                   chunkChan, resultChan, senderDropped, reader, consumer,
                   items, dataVars>>
    /\ UNCHANGED <<cacheVars, treeVars, segVars, calcVars, libVars>>

\* segments() returns; the shuffle, Tree::new, the second channel, the join
SegmentsEnd ==
    /\ pc = "in_segments"
    /\ \E n \in 0..MaxSegments :
          /\ EmittedSize(n) <= added
          /\ segments' \in Shuffles([i \in 1..n |-> i])
          /\ items' = [i \in 1..n |-> "todo"]
    /\ pc' = "stage2"
    /\ mutating' = mutating \ {"main"}
    /\ senderDropped' = FALSE
    /\ consumer' = IdleConsumer
    /\ UNCHANGED <<result, max_threads, poolSize, outKind, ioVars, nChunks,
                   chunkChan, resultChan, reader, added, segment_values,
                   saved, treeInserted, project, received>>
    /\ UNCHANGED <<cacheVars, treeVars, segVars, calcVars, libVars>>

\* one item of segments.into_par_iter().enumerate(): calculate has run on a
\* worker, which now holds the result
Calculate(i) ==
    /\ pc = "stage2"
    /\ items[i] = "todo"
    /\ Cardinality({j \in DOMAIN items : items[j] = "computed"}) < CalcWorkers(poolSize)
    /\ items' = [items EXCEPT ![i] = "computed"]
    /\ UNCHANGED <<pc, result, max_threads, poolSize, outKind, ioVars,
                   nChunks, chunkChan, resultChan, senderDropped, reader,
                   consumer, mutating, dataVars>>
    /\ UNCHANGED <<cacheVars, treeVars, segVars, calcVars, libVars>>

\* sender.send((points, index, information)).unwrap()
CalculateSend(i) ==
    /\ pc = "stage2"
    /\ items[i] = "computed"
    /\ ChannelHasRoom(resultChan, ResultChannelCapacity)
    /\ resultChan' = Append(resultChan,
                            [index |-> SegmentIndex(i - 1), segment |-> segments[i]])
    /\ items' = [items EXCEPT ![i] = "sent"]
    /\ UNCHANGED <<pc, result, max_threads, poolSize, outKind, ioVars,
                   nChunks, chunkChan, senderDropped, reader, consumer,
                   mutating, dataVars>>
    /\ UNCHANGED <<cacheVars, treeVars, segVars, calcVars, libVars>>

\* for_each has returned: drop(sender)
CalculateFinish ==
    /\ pc = "stage2"
    /\ ~senderDropped
    /\ \A i \in DOMAIN items : items[i] = "sent"
    /\ senderDropped' = TRUE
    /\ UNCHANGED <<pc, result, max_threads, poolSize, outKind, ioVars,
                   nChunks, chunkChan, resultChan, reader, consumer, items,
                   mutating, dataVars>>
    /\ UNCHANGED <<cacheVars, treeVars, segVars, calcVars, libVars>>

\* the second closure starts: the segments folder, its Writer, the table
TreeConsumerStart ==
    /\ pc = "stage2"
    /\ consumer.pc = "idle"
    /\ CanStartB(poolSize, senderDropped)
    /\ consumer' = [consumer EXCEPT !.pc = "recv"]
    /\ disk' = disk \cup {<<"segments", 0>>}
    /\ segment_values' =
          [k \in 0..(Len(segments) * Len(segments_information) - 1) |-> "zero"]
    /\ UNCHANGED <<pc, result, max_threads, poolSize, outKind, inputOpened,
                   chunksRead, nChunks, chunkChan, resultChan, senderDropped,
                   reader, items, mutating, added, segments, saved,
                   treeInserted, project, received>>
    /\ UNCHANGED <<cacheVars, treeVars, segVars, calcVars, libVars>>

\* a consumer that fills the table in the order the results arrive
TreeConsumerRecvByArrival ==
    /\ pc = "stage2"
    /\ consumer.pc = "recv"
    /\ resultChan # <<>>
    /\ LET r == Head(resultChan)
           offset == Cardinality(DOMAIN saved)
       IN /\ consumer' = [pc |-> "points", cur |-> r.index,
                          left |-> SegmentLength(r.segment)]
          /\ saved' = Put(saved, r.index - 1, r.segment)
          /\ disk' = disk \cup {<<"segment", r.index - 1>>}
          /\ segment_values' =
                [segment_values EXCEPT
                    ![offset * Len(segments_information)] = TrunkHeight(r.segment),
                    ![offset * Len(segments_information) + 1] = CrownHeight(r.segment)]
    /\ resultChan' = Tail(resultChan)
    /\ received' = Append(received, Head(resultChan).index)
    /\ UNCHANGED <<pc, result, max_threads, poolSize, outKind, inputOpened,
                   chunksRead, nChunks, chunkChan, senderDropped, reader,
                   items, mutating, added, segments, treeInserted,
                   project>>
    /\ UNCHANGED <<cacheVars, treeVars, segVars, calcVars, libVars>>

\* for (points, segment, information) in reciever: the result is saved at
\* writer index segment - 1 and its two values are stored
TreeConsumerRecv ==
    /\ pc = "stage2"
    /\ consumer.pc = "recv"
    /\ resultChan # <<>>
    /\ LET r == Head(resultChan)
           offset == r.index - 1
       IN /\ consumer' = [pc |-> "points", cur |-> r.index,
                          left |-> SegmentLength(r.segment)]
          /\ saved' = Put(saved, r.index - 1, r.segment)
          /\ disk' = disk \cup {<<"segment", r.index - 1>>}
          /\ segment_values' =
                [segment_values EXCEPT
                    ![offset * Len(segments_information)] = TrunkHeight(r.segment),
                    ![offset * Len(segments_information) + 1] = CrownHeight(r.segment)]
    /\ resultChan' = Tail(resultChan)
    /\ received' = Append(received, Head(resultChan).index)
    /\ UNCHANGED <<pc, result, max_threads, poolSize, outKind, inputOpened,
                   chunksRead, nChunks, chunkChan, senderDropped, reader,
                   items, mutating, added, segments, treeInserted,
                   project>>
    /\ UNCHANGED <<cacheVars, treeVars, segVars, calcVars, libVars>>

\* tree.insert(point, &mut cache) is entered
InsertBegin ==
    /\ pc = "stage2"
    /\ consumer.pc = "points"
    /\ consumer.left > 0
    /\ consumer' = [consumer EXCEPT !.pc = "insert"]
    /\ mutating' = mutating \cup {"tree_consumer"}
    /\ UNCHANGED <<pc, result, max_threads, poolSize, outKind, ioVars,
                   nChunks, chunkChan, resultChan, senderDropped, reader,
                   items, dataVars>>
    /\ UNCHANGED <<cacheVars, treeVars, segVars, calcVars, libVars>>

\* tree.insert returns
InsertEnd ==
    /\ pc = "stage2"
    /\ consumer.pc = "insert"
    /\ consumer' = [consumer EXCEPT !.pc = "points", !.left = consumer.left - 1]
    /\ mutating' = mutating \ {"tree_consumer"}
    /\ treeInserted' = Put(treeInserted, consumer.cur,
                           IF consumer.cur \in DOMAIN treeInserted
                           THEN treeInserted[consumer.cur] + 1 ELSE 1)
    /\ UNCHANGED <<pc, result, max_threads, poolSize, outKind, ioVars,
                   nChunks, chunkChan, resultChan, senderDropped, reader,
                   items, added, segments, segment_values, saved, project,
                   received>>
    /\ UNCHANGED <<cacheVars, treeVars, segVars, calcVars, libVars>>

\* a loop over the points that leaves out the last one
TreeConsumerNextSkipsLast ==
    /\ pc = "stage2"
    /\ consumer.pc = "points"
    /\ consumer.left <= 1
    /\ consumer' = [consumer EXCEPT !.pc = "recv", !.cur = 0]
    /\ UNCHANGED <<pc, result, max_threads, poolSize, outKind, ioVars,
                   nChunks, chunkChan, resultChan, senderDropped, reader,
                   items, mutating, dataVars>>
    /\ UNCHANGED <<cacheVars, treeVars, segVars, calcVars, libVars>>

\* the result is used up: progress.step_by(l), next iteration
TreeConsumerNext ==
    /\ pc = "stage2"
    /\ consumer.pc = "points"
    /\ consumer.left = 0
    /\ consumer' = [consumer EXCEPT !.pc = "recv", !.cur = 0]
    /\ UNCHANGED <<pc, result, max_threads, poolSize, outKind, ioVars,
                   nChunks, chunkChan, resultChan, senderDropped, reader,
                   items, mutating, dataVars>>
    /\ UNCHANGED <<cacheVars, treeVars, segVars, calcVars, libVars>>

\* the channel is empty and its sender dropped: segment_values is returned
TreeConsumerFinish ==
    /\ pc = "stage2"
    /\ consumer.pc = "recv"
    /\ resultChan = <<>>
    /\ senderDropped
    /\ consumer' = [consumer EXCEPT !.pc = "done"]
    /\ UNCHANGED <<pc, result, max_threads, poolSize, outKind, ioVars,
                   nChunks, chunkChan, resultChan, senderDropped, reader,
                   items, mutating, dataVars>>
    /\ UNCHANGED <<cacheVars, treeVars, segVars, calcVars, libVars>>

\* the second join returns
Stage2Join ==
    /\ pc = "stage2"
    /\ JoinReturns(senderDropped, consumer.pc = "done")
    /\ pc' = "flatten"
    /\ UNCHANGED <<result, max_threads, poolSize, outKind, ioVars, stageVars,
                   dataVars>>
    /\ UNCHANGED <<cacheVars, treeVars, segVars, calcVars, libVars>>

\* tree.flatten(.., cache, ..) is entered
FlattenBegin ==
    /\ pc = "flatten"
    /\ pc' = "in_flatten"
    /\ mutating' = mutating \cup {"main"}
    /\ UNCHANGED <<result, max_threads, poolSize, outKind, ioVars, nChunks,
                   chunkChan, resultChan, senderDropped, reader, consumer,
                   items, dataVars>>
    /\ UNCHANGED <<cacheVars, treeVars, segVars, calcVars, libVars>>

\* flatten returns; Writer::new, save_project, tree.save, Ok(())
FlattenEnd ==
    /\ pc = "in_flatten"
    /\ pc' = "done"
    /\ result' = "Ok"
    /\ mutating' = mutating \ {"main"}
    /\ disk' = disk \cup {<<"project", 0>>, <<"tree", 0>>}
    /\ project' = FlattenProject(segments_information, segment_values)
    /\ UNCHANGED <<max_threads, poolSize, outKind, inputOpened, chunksRead,
                   nChunks, chunkChan, resultChan, senderDropped, reader,
                   consumer, items, added, segments, segment_values, saved,
                   treeInserted, received>>
    /\ UNCHANGED <<cacheVars, treeVars, segVars, calcVars, libVars>>

PipeInit ==
    /\ pc = "run"
    /\ result = "none"
    /\ max_threads \in 0..MaxThreads
    /\ poolSize = 0
    /\ outKind \in OutputKinds
    /\ inputOpened = FALSE
    /\ chunksRead = 0
    /\ disk = {}
    /\ nChunks = 0
    /\ chunkChan = <<>>
    /\ resultChan = <<>>
    /\ senderDropped = FALSE
    /\ reader = IdleReader
    /\ consumer = IdleConsumer
    /\ items = <<>>
    /\ mutating = {}
    /\ added = 0
    /\ segments = <<>>
    /\ segment_values = <<>>
    /\ saved = <<>>
    /\ treeInserted = <<>>
    /\ project = ProjectEmpty
    /\ received = <<>>

PipeIdle ==
    /\ pc = "run"
    /\ result = "none"
    /\ max_threads = 0
    /\ poolSize = 0
    /\ outKind = "absent"
    /\ inputOpened = FALSE
    /\ chunksRead = 0
    /\ disk = {}
    /\ nChunks = 0
    /\ chunkChan = <<>>
    /\ resultChan = <<>>
    /\ senderDropped = FALSE
    /\ reader = IdleReader
    /\ consumer = IdleConsumer
    /\ items = <<>>
    /\ mutating = {}
    /\ added = 0
    /\ segments = <<>>
    /\ segment_values = <<>>
    /\ saved = <<>>
    /\ treeInserted = <<>>
    /\ project = ProjectEmpty
    /\ received = <<>>

(***************************************************************************)
(* DataFile (project): an index table of [position, length] pairs of u64   *)
(* at the start of the file, the saved data appended behind it.  The file  *)
(* is a sequence of bytes; T is u32.                                       *)
(***************************************************************************)
MaxTableSize == 2     \* greatest size given to DataFile::new
MaxSaves == 3         \* save calls on one DataFile

U64Bytes == 8         \* std::mem::size_of::<u64>()
ElemBytes == 4        \* std::mem::size_of::<T>() for T = u32

\* the slices given to save
DataValues == {<<>>, <<258>>, <<1, 0>>}

\* the file handle of a DataFile: new opens it write(true).create(true),
\* open opens it read(true)
Readable(h) == h = "open"

\* the n bytes of v, least significant first (bytemuck::cast_slice on a
\* little-endian target)
RECURSIVE ToBytes(_, _)
ToBytes(v, n) ==
    IF n = 0 THEN <<>> ELSE <<v % 256>> \o ToBytes(v \div 256, n - 1)

\* the value of little-endian bytes (bytemuck::cast_slice_mut)
RECURSIVE FromBytes(_)
FromBytes(b) ==
    IF b = <<>> THEN 0 ELSE Head(b) + 256 * FromBytes(Tail(b))

\* cast_slice of a slice of values of w bytes each
RECURSIVE CastSlice(_, _)
CastSlice(s, w) ==
    IF s = <<>> THEN <<>> ELSE ToBytes(Head(s), w) \o CastSlice(Tail(s), w)

\* n values of w bytes each out of the bytes b
RECURSIVE CastBack(_, _, _)
CastBack(b, w, n) ==
    IF n = 0 THEN <<>>
    ELSE <<FromBytes(SubSeq(b, 1, w))>> \o CastBack(SubSeq(b, w + 1, Len(b)), w, n - 1)

\* file.set_len on the file just created: size index entries of zeroes
NewFile(size) == [i \in 1..(size * 2 * U64Bytes) |-> 0]

\* seek(Start(off)) then write_all(bytes): overwrites, and extends the file
\* (a gap reads as zeroes) when the write passes its end
WriteAt(f, off, bytes) ==
    LET end == IF off + Len(bytes) > Len(f) THEN off + Len(bytes) ELSE Len(f)
    IN  [i \in 1..end |->
            IF i > off /\ i <= off + Len(bytes) THEN bytes[i - off]
            ELSE IF i <= Len(f) THEN f[i] ELSE 0]

\* seek(Start(off)) then read_exact of n bytes: fails past the end
CanRead(f, off, n) == off + n <= Len(f)

ReadAt(f, off, n) == SubSeq(f, off + 1, off + n)

\* seek(End(0)), stream_position
SavePosition(f) == Len(f)

\* data.len() as u64
SavedLengthInBytes(d) == Len(d) * ElemBytes

SavedLength(d) == Len(d)

EntryOffset(idx) == idx * 2 * U64Bytes

\* DataFile::save: the data at the end, then [position, length] in the table
FileAfterSave(f, idx, d) ==
    LET pos == <<SavePosition(f), SavedLength(d)>>
        appended == WriteAt(f, SavePosition(f), CastSlice(d, ElemBytes))
    IN  WriteAt(appended, EntryOffset(idx), CastSlice(pos, U64Bytes))

\* what a read gives: the vector it returns, or the panic of an unwrap
Vec(d) == [ok |-> TRUE, data |-> d]

Panic == [ok |-> FALSE, data |-> <<>>]

\* the [position, length] pair the table holds for idx
Entry(f, idx) == CastBack(ReadAt(f, EntryOffset(idx), 2 * U64Bytes), U64Bytes, 2)

\* DataFile::read through a handle h: the entry of idx, then its data
FileRead(f, h, idx) ==
    IF ~Readable(h) \/ ~CanRead(f, EntryOffset(idx), 2 * U64Bytes) THEN Panic
    ELSE LET pos == Entry(f, idx)
         IN  IF ~CanRead(f, pos[1], pos[2] * ElemBytes) THEN Panic
             ELSE Vec(CastBack(ReadAt(f, pos[1], pos[2] * ElemBytes), ElemBytes, pos[2]))

NoRead == [via |-> "none", idx |-> 0, value |-> Vec(<<>>)]

(***************************************************************************)
(* DataFile actions                                                        *)
(***************************************************************************)
\* DataFile::new(size, path) on a path that holds no file
DataFileNew(size) ==
    /\ fileState = "absent"
    /\ fileState' = "created"
    /\ tableSize' = size
    /\ file' = NewFile(size)
    /\ UNCHANGED <<saves, readResult>>
    /\ UNCHANGED <<cacheVars, treeVars, segVars, pipeVars, calcVars, triVars>>

\* DataFile::save(idx, data) on the DataFile new returned, idx < size
DataFileSave(idx, d) ==
    /\ fileState = "created"
    /\ Len(saves) < MaxSaves
    /\ file' = FileAfterSave(file, idx, d)
    /\ saves' = Append(saves, [idx |-> idx, data |-> d])
    /\ readResult' = NoRead
    /\ UNCHANGED <<fileState, tableSize>>
    /\ UNCHANGED <<cacheVars, treeVars, segVars, pipeVars, calcVars, triVars>>

\* DataFile::read(idx), on the DataFile new returned (h = "new") or on one
\* that DataFile::open returned for the same path (h = "open")
DataFileRead(h, idx) ==
    /\ fileState = "created"
    /\ readResult' = [via |-> h, idx |-> idx, value |-> FileRead(file, h, idx)]
    /\ UNCHANGED <<fileState, tableSize, file, saves>>
    /\ UNCHANGED <<cacheVars, treeVars, segVars, pipeVars, calcVars, triVars>>

FileInit ==
    /\ fileState = "absent"
    /\ tableSize = 0
    /\ file = <<>>
    /\ saves = <<>>
    /\ readResult = NoRead

(***************************************************************************)
(* triangulation::triangulate.  The points are named by their index in     *)
(* data.  What seed and find_third return depends on the positions; here   *)
(* they return any of the values their filters allow.  An Edge is kept     *)
(* with its two ends in order; two Edges are equal when they have the same *)
(* ends, in either order.                                                  *)
(***************************************************************************)
MaxTriPoints == 4     \* data.len()

TriIndices == 0..(MaxTriPoints - 1)

\* the two ends of an Edge, without their order
Ends(e) == {e.active_1, e.active_2}

\* Edge::new(active_1, active_2, center)
EdgeNew(a, b) == [active_1 |-> a, active_2 |-> b]

\* PartialEq for Edge: the same ends, in either order
EdgeEq(e, f) ==
    \/ e.active_1 = f.active_1 /\ e.active_2 = f.active_2
    \/ e.active_1 = f.active_2 /\ e.active_2 = f.active_1

\* HashSet<Edge> under this equality and the hash of the two ends in
\* ascending order: the set of the pairs of ends of its Edges
FoundContains(fnd, e) == Ends(e) \in fnd

\* HashSet<Edge>::insert
FoundInsert(fnd, e) == fnd \cup {Ends(e)}

\* HashMap<Edge, usize>, a set of [key, value]: the entry of an equal key
EntryOf(map, e) == {m \in map : EdgeEq(m.key, e)}

\* HashMap::insert: the value of an equal key is replaced, the key kept
MapInsert(map, e, v) ==
    IF EntryOf(map, e) = {} THEN map \cup {[key |-> e, value |-> v]}
    ELSE {IF EdgeEq(m.key, e) THEN [key |-> m.key, value |-> v] ELSE m : m \in map}

\* HashMap::remove
MapRemove(map, e) == map \ EntryOf(map, e)

\* [..].into_iter().collect::<HashMap<_, _>>()
RECURSIVE MapCollect(_, _)
MapCollect(map, pairs) ==
    IF pairs = <<>> THEN map
    ELSE MapCollect(MapInsert(map, Head(pairs)[1], Head(pairs)[2]), Tail(pairs))

\* an insert that does not look at found
MayInsertAlways(fnd, e) == TRUE

\* if found.contains(&edge.0).not()
MayInsert(fnd, e) == ~FoundContains(fnd, e)

\* the body of `for edge in [..]` for one new edge with its opposite point
AddEdge(st, e, opposite) ==
    IF EntryOf(st.edges, e) = {}
    THEN IF MayInsert(st.found, e)
         THEN [edges |-> MapInsert(st.edges, e, opposite), found |-> st.found]
         ELSE st
    ELSE [edges |-> MapRemove(st.edges, e), found |-> FoundInsert(st.found, e)]

\* what seed may return, up to the naming of the points: three points, and
\* a first that is met again among its own nearest (a point given twice)
Seeds == {<<0, 1, 2>>, <<0, 0, 1>>}

\* what find_third may return for the edge (first, second) with the point
\* old opposite, the points of u used: a point that passes the filter, or
\* nothing
NoThird == MaxTriPoints

Thirds(first, second, old, u) ==
    \* the points not used so far are alike: the lowest stands for them
    LET fresh == {t \in TriIndices \ u : \A v \in TriIndices \ u : t <= v}
    IN {t \in u \cup fresh : t # first /\ t # second /\ t # old} \cup {NoThird}

(***************************************************************************)
(* triangulate actions                                                     *)
(***************************************************************************)
\* seed returns None: return Vec::new()
TriNoSeed ==
    /\ triPc = "seed"
    /\ triPc' = "returned"
    /\ UNCHANGED <<used, indices_len, edges, found, taken>>
    /\ UNCHANGED <<cacheVars, treeVars, segVars, pipeVars, calcVars, fileVars>>

\* seed returns a triangle: indices, used and the three edges of it
TriSeed(s) ==
    /\ triPc = "seed"
    /\ triPc' = "loop"
    /\ indices_len' = Len(<<s[1], s[2], s[3]>>)
    /\ used' = {s[1], s[2], s[3]}
    /\ found' = {}
    /\ edges' = MapCollect({}, << <<EdgeNew(s[1], s[3]), s[2]>>,
                                  <<EdgeNew(s[3], s[2]), s[1]>>,
                                  <<EdgeNew(s[2], s[1]), s[3]>> >>)
    /\ UNCHANGED taken
    /\ UNCHANGED <<cacheVars, treeVars, segVars, pipeVars, calcVars, fileVars>>

\* one turn of the while loop: the entry m is taken from edges, find_third
\* returns third
TriStep(m, third) ==
    /\ triPc = "loop"
    /\ m \in edges
    /\ third \in Thirds(m.key.active_1, m.key.active_2, m.value, used)
    /\ taken' = Put(taken, Ends(m.key),
                    IF Ends(m.key) \in DOMAIN taken THEN taken[Ends(m.key)] + 1 ELSE 1)
    /\ LET first == m.key.active_1
           second == m.key.active_2
           st0 == [edges |-> MapRemove(edges, m.key),
                   found |-> FoundInsert(found, m.key)]
           st1 == AddEdge(st0, EdgeNew(first, third), second)
           st2 == AddEdge(st1, EdgeNew(third, second), first)
       IN IF third = NoThird
          THEN /\ edges' = st0.edges
               /\ found' = st0.found
               /\ UNCHANGED <<indices_len, used>>
          ELSE /\ edges' = st2.edges
               /\ found' = st2.found
               /\ indices_len' = indices_len + Len(<<first, second, third>>)
               /\ used' = used \cup {third}
    /\ UNCHANGED triPc
    /\ UNCHANGED <<cacheVars, treeVars, segVars, pipeVars, calcVars, fileVars>>

\* edges.keys().next() is None: indices is returned
TriReturn ==
    /\ triPc = "loop"
    /\ edges = {}
    /\ triPc' = "returned"
    /\ UNCHANGED <<used, indices_len, edges, found, taken>>
    /\ UNCHANGED <<cacheVars, treeVars, segVars, pipeVars, calcVars, fileVars>>

TriInit ==
    /\ triPc = "seed"
    /\ used = {}
    /\ indices_len = 0
    /\ edges = {}
    /\ found = {}
    /\ taken = <<>>

(***************************************************************************)
(* Specifications                                                          *)
(***************************************************************************)
InitCache == CacheInit /\ TreeInit /\ SegIdle /\ PipeIdle /\ CalcIdle /\ FileInit /\ TriInit

NextCache == CacheNext

SpecCache == InitCache /\ [][NextCache]_vars

InitTree == CacheInit /\ TreeInit /\ SegIdle /\ PipeIdle /\ CalcIdle /\ FileInit /\ TriInit

NextTree == TreeNext

SpecTree == InitTree /\ [][NextTree]_vars

InitFlatten == CacheInit /\ TreeInit /\ SegIdle /\ PipeIdle /\ CalcIdle /\ FileInit /\ TriInit

NextFlatten ==
    \/ \E p \in FlattenPositions : InsertCached(p)
    \/ Flatten

SpecFlatten == InitFlatten /\ [][NextFlatten]_vars

InitSegmenter == CacheInit /\ TreeInit /\ SegInit /\ PipeIdle /\ CalcIdle /\ FileInit /\ TriInit

NextSegmenter ==
    \/ \E p \in SegPositions : AddPoint(p)
    \/ Finalize
    \/ Shuffle
    \/ \E i \in DOMAIN emitted : CalculateSegment(i)

SpecSegmenter == InitSegmenter /\ [][NextSegmenter]_vars

Init == CacheInit /\ TreeInit /\ SegIdle /\ PipeInit /\ CalcIdle /\ FileInit /\ TriInit

Next ==
    \/ Run
    \/ ImportSetup
    \/ ImportOpen
    \/ ReaderRead
    \/ ReaderFail
    \/ ReaderSend
    \/ ReaderFinish
    \/ SegmentConsumerStart
    \/ SegmentConsumerRecv
    \/ AddPointBegin
    \/ AddPointEnd
    \/ SegmentConsumerNext
    \/ SegmentConsumerFinish
    \/ Stage1Join
    \/ SegmentsBegin
    \/ SegmentsEnd
    \/ \E i \in DOMAIN items : Calculate(i)
    \/ \E i \in DOMAIN items : CalculateSend(i)
    \/ CalculateFinish
    \/ TreeConsumerStart
    \/ TreeConsumerRecv
    \/ InsertBegin
    \/ InsertEnd
    \/ TreeConsumerNext
    \/ TreeConsumerFinish
    \/ Stage2Join
    \/ FlattenBegin
    \/ FlattenEnd

Spec == Init /\ [][Next]_vars

\* import on a pool of at least two workers, the output folder absent
InitFair == Init /\ max_threads >= 2 /\ outKind = "absent"

\* while some thread can take a step, a step is taken
FairSpec == InitFair /\ [][Next]_vars /\ WF_vars(Next)

InitCalculate == CacheInit /\ TreeInit /\ SegIdle /\ PipeIdle /\ CalcInit /\ FileInit /\ TriInit

NextCalculate ==
    \/ CalcBegin
    \/ CalcSlices
    \/ CalcPoint
    \/ CalcReturn

SpecCalculate == InitCalculate /\ [][NextCalculate]_vars

InitProfile == CacheInit /\ TreeInit /\ SegIdle /\ PipeIdle /\ CalcInitProfile /\ FileInit /\ TriInit

SpecProfile == InitProfile /\ [][NextCalculate]_vars

InitDataFile == CacheInit /\ TreeInit /\ SegIdle /\ PipeIdle /\ CalcIdle /\ FileInit /\ TriInit

NextDataFile ==
    \/ \E size \in 1..MaxTableSize : DataFileNew(size)
    \/ \E idx \in 0..(tableSize - 1), d \in DataValues : DataFileSave(idx, d)
    \/ \E h \in {"new", "open"}, idx \in 0..(tableSize - 1) : DataFileRead(h, idx)

SpecDataFile == InitDataFile /\ [][NextDataFile]_vars

NextTriangulate ==
    \/ TriNoSeed
    \/ \E s \in Seeds : TriSeed(s)
    \/ \E m \in edges, third \in TriIndices \cup {NoThird} : TriStep(m, third)
    \/ TriReturn

InitTriangulate == CacheInit /\ TreeInit /\ SegIdle /\ PipeIdle /\ CalcIdle /\ FileInit /\ TriInit

SpecTriangulate == InitTriangulate /\ [][NextTriangulate]_vars

\* the loop is a sequential program: it takes its next step
FairTriangulate == SpecTriangulate /\ WF_vars(NextTriangulate)

\* C1: every read returns, for its key, exactly the bytes appended to that
\* key, in append order, whether the entry was resident or spilled to the
\* backing file when it was read.
C1_ReadReturnsWritten ==
    ret.op = "read" => ret.data = written[ret.key]

\* a read of a spilled two-byte buffer whose bytes differ, while another
\* key holds data too
C1_Witness ==
    /\ ret.op = "read"
    /\ ret.spilled
    /\ Len(ret.data) = 2
    /\ ret.data[1] # ret.data[2]
    /\ \E k \in DOMAIN written : k # ret.key /\ written[k] # <<>>

InsertedIn(path) == {i \in DOMAIN inserted : InCube(inserted[i], path)}

Leaves == {l \in DOMAIN tree : tree[l].leaf}

Branches == {b \in DOMAIN tree : ~tree[b].leaf}

C3_Conservation ==
    \A b \in Branches :
        /\ LeafCount(tree, b) = Cardinality(InsertedIn(b))
        /\ PointsBelow(tree, b) = {inserted[i] : i \in InsertedIn(b)}

\* a nested branch exists and points were redistributed to several leaves
C3_Witness ==
    /\ \E b \in Branches : Len(b) = 1 /\ LeafCount(tree, b) >= 2
    /\ Cardinality({l \in Leaves : tree[l].points # <<>>}) >= 3

\* the connected components of the seen points under Near, computed from
\* the stream alone
RECURSIVE Reach(_)
Reach(S) ==
    LET N == S \cup {j \in DOMAIN stream :
                        \E i \in S : Near(stream[i], stream[j], settings)}
    IN IF N = S THEN S ELSE Reach(N)

Components == {Reach({i}) : i \in DOMAIN stream}

LargeComponents == {C \in Components : Cardinality(C) >= settings.min_segment_size}

SegmentIds == DOMAIN segmenter.segments

\* C4: segments() returns exactly the segments of at least min_segment_size
\* points, each once, and drops every smaller one; a stream of one large
\* connected cluster and one small isolated cluster yields exactly the
\* large cluster.
C4_SegmentsFilter ==
    segPhase # "adding" =>
        /\ \A i \in DOMAIN emitted : Len(emitted[i]) >= settings.min_segment_size
        /\ \A s \in SegmentIds :
              Len(segmenter.segments[s]) >= settings.min_segment_size
              => Cardinality({i \in DOMAIN emitted : emitted[i] = segmenter.segments[s]}) = 1
        /\ \A i \in DOMAIN emitted : \E s \in SegmentIds : emitted[i] = segmenter.segments[s]
        /\ (Cardinality(Components) = 2 /\ Cardinality(LargeComponents) = 1)
              => /\ Len(emitted) = 1
                 /\ \E C \in LargeComponents :
                       Range(emitted[1]) = C /\ Len(emitted[1]) = Cardinality(C)

\* a cluster of min_segment_size connected points was emitted and an
\* isolated smaller cluster was dropped
C4_Witness ==
    /\ segPhase = "finalized"
    /\ settings.min_segment_size = MaxMinSegmentSize
    /\ Cardinality(Components) = 2
    /\ Len(emitted) = 1
    /\ Len(emitted[1]) >= 2
    /\ Len(stream) > Len(emitted[1])

\* C5: every seen point belongs to exactly one segment, and two seen points
\* in range of each other (same or adjacent slice) carry one identifier,
\* so a point in range of two segments has merged them.
C5_OneSegmentAndMerged ==
    /\ \A i \in DOMAIN stream :
          /\ Cardinality({s \in SegmentIds : i \in Range(segmenter.segments[s])}) = 1
          /\ \A s \in SegmentIds :
                Cardinality({k \in DOMAIN segmenter.segments[s] :
                                segmenter.segments[s][k] = i}) <= 1
    /\ \A i, j \in DOMAIN stream :
          Near(stream[i], stream[j], settings)
          => \E s \in SegmentIds : {i, j} \subseteq Range(segmenter.segments[s])
    /\ \A s \in SegmentIds : Range(segmenter.segments[s]) \subseteq DOMAIN stream

\* the last add_point was in range of two distinct segments and left one
C5_Witness ==
    /\ Cardinality(segmenter.joined) = 2
    /\ Cardinality(SegmentIds) = 1
    /\ Len(stream) = 3

AllCalculated == segPhase = "shuffled" /\ calculated = DOMAIN emitted

\* C6: when every emitted segment has been calculated, the partition of the
\* points by the identifier they carry is the set of large connected
\* components of the stream: it depends on the stream and the settings
\* only, not on the shuffle or the order the parallel items ran in.
C6_MembershipDeterministic ==
    AllCalculated =>
        /\ {{k \in DOMAIN pointSegment : pointSegment[k] = id} :
               id \in Range(pointSegment)} = LargeComponents
        /\ DOMAIN pointSegment = UNION LargeComponents

\* two segments were emitted and the shuffle changed their order
C6_Witness ==
    /\ AllCalculated
    /\ Len(emitted) >= 2
    /\ emitted # SegmenterSegments(segmenter, settings)

\* C7: the chunks sent and not yet received never exceed the capacity of
\* the first channel (4), the results queued for the tree consumer never
\* exceed that of the second (2), and while a channel is full no producer
\* completes a send: the reader keeps its chunk, every worker its result.
C7_Backpressure ==
    /\ [](Len(chunkChan) <= ChunkChannelCapacity /\ Len(resultChan) <= ResultChannelCapacity)
    /\ [][/\ (Len(chunkChan) = ChunkChannelCapacity /\ reader.hand # 0) => reader' = reader
          /\ Len(resultChan) = ResultChannelCapacity
                => \A i \in DOMAIN items :
                      (i \in DOMAIN items' /\ items'[i] = "sent") => items[i] = "sent"]_vars

\* the reader holds a chunk it cannot send: the channel is full
C7_Witness ==
    /\ Len(chunkChan) = ChunkChannelCapacity
    /\ reader.hand # 0
    /\ consumer.pc = "add_point"

\* C8: at most one thread is inside a call that mutates the Segmenter, the
\* Tree or the Cache; in the first join it is the channel consumer calling
\* add_point, in the second the channel consumer calling Tree::insert.
C8_SingleMutator ==
    /\ Cardinality(mutating) <= 1
    /\ pc = "stage1" => mutating \subseteq {"segment_consumer"}
    /\ pc = "stage2" => mutating \subseteq {"tree_consumer"}
    /\ pc \notin {"stage1", "stage2"} => mutating \subseteq {"main"}

\* the tree consumer is inside Tree::insert while a calculate worker holds
\* a result and another item is still to be calculated
C8_Witness ==
    /\ mutating = {"tree_consumer"}
    /\ \E i \in DOMAIN items : items[i] = "computed"
    /\ \E i \in DOMAIN items : items[i] = "todo"

\* C9: run returns NotEnoughThreads for max_threads = 1 without starting
\* the import, and every pool import runs on has at least 2 workers.
C9_MinimumTwoThreads ==
    /\ max_threads = 1 =>
          /\ pc \in {"run", "failed"}
          /\ poolSize = 0
          /\ pc = "failed" => result \in {"NoInputFile", "NoOutputFolder", "NotEnoughThreads"}
    /\ poolSize # 0 => poolSize >= 2

\* C10: with the output path a file, or a directory that is not empty,
\* import fails with the matching error before the input is opened, a
\* point is read or anything is written.
C10_OutputCheckedFirst ==
    outKind \in {"file", "non_empty_dir"} =>
        /\ ~inputOpened
        /\ chunksRead = 0
        /\ disk = {}
        /\ pc \in {"run", "import", "failed"}
        /\ (pc = "failed" /\ poolSize # 0) =>
              result = (IF outKind = "file" THEN "OutputFolderIsFile"
                        ELSE "OutputFolderIsNotEmpty")

\* import was started on a pool and failed on a directory that is not empty
C10_Witness ==
    /\ pc = "failed"
    /\ poolSize >= 2
    /\ result = "OutputFolderIsNotEmpty"

\* C11: once the reader has reported an error on a chunk, import returns
\* that error and nothing after the first join runs: no segments(), no
\* calculate, no Tree::insert, no flatten, no save_project; a failed run
\* has written no project file.
C11_FailFast ==
    /\ reader.err # "none" =>
          /\ pc \in {"stage1", "failed"}
          /\ pc = "failed" => result = reader.err
          /\ segments = <<>> /\ items = <<>>
          /\ saved = <<>> /\ treeInserted = <<>> /\ segment_values = <<>>
          /\ mutating \subseteq {"segment_consumer"}
          /\ disk \subseteq {<<"output", 0>>}
    /\ pc = "failed" => <<"project", 0>> \notin disk /\ <<"tree", 0>> \notin disk

\* the reader failed on a later chunk, after points of an earlier chunk
\* were added, and import returned the reader's error
C11_Witness ==
    /\ pc = "failed"
    /\ reader.err = "CorruptFile"
    /\ result = "CorruptFile"
    /\ chunksRead >= 1
    /\ added >= 1

PastFirstJoin == pc \in {"segments", "in_segments", "stage2", "flatten", "in_flatten", "done"}

\* the points of every chunk of the source
SourcePoints == SumOver(1..nChunks, [c \in 1..nChunks |-> ChunkLength(c)])

\* C12: segmenter.segments is called only once the reader has sent every
\* chunk and add_point has consumed every point of every chunk sent; no
\* add_point runs after it; calculate runs only on the segments it
\* returned, which do not change afterwards.
C12_StageOrdering ==
    /\ [](PastFirstJoin =>
            /\ reader.pc = "done" /\ reader.hand = 0 /\ reader.next = nChunks + 1
            /\ chunkChan = <<>>
            /\ added = SourcePoints
            /\ consumer.pc # "add_point")
    /\ []((\E i \in DOMAIN items : items[i] # "todo") =>
            /\ pc \in {"stage2", "flatten", "in_flatten", "done"}
            /\ Len(segments) = Len(items))
    /\ [][/\ PastFirstJoin => added' = added
          /\ pc \in {"stage2", "flatten", "in_flatten"} => segments' = segments]_vars

\* every chunk of the longest source was added before a segment was
\* calculated
C12_Witness ==
    /\ pc = "stage2"
    /\ nChunks = MaxChunks
    /\ added = SourcePoints
    /\ added >= 2
    /\ \E i \in DOMAIN items : items[i] = "computed"

Pos(seq, x) == CHOOSE i \in DOMAIN seq : seq[i] = x

\* the entries the step spilled, the touched key aside
Spilled(k) == {e \in DOMAIN entries : e # k /\ e \notin DOMAIN entries'}

\* C13: whenever a Cache operation returns, the resident bytes are at most
\* the budget; the entries an operation spills are the least recently used
\* ones, and no more of them than needed to get back under the budget; an
\* entry that is read is most recently used afterwards, also when it was
\* reloaded from the backing file.
C13_CacheBudget ==
    /\ [](/\ ResidentBytes(TheCache) <= BudgetBytes
          /\ Range(lru) = DOMAIN entries /\ Len(lru) = Cardinality(DOMAIN entries)
          /\ DOMAIN entries \cap DOMAIN stored = {}
          /\ (ret.op = "read" /\ ret.key \in DOMAIN entries) => lru[Len(lru)] = ret.key)
    /\ [][LET k == ret'.key IN
          /\ \A e \in Spilled(k) : \A j \in (DOMAIN entries') \ {k} :
                j \in DOMAIN entries /\ Pos(lru, e) < Pos(lru, j)
          /\ \A e \in Spilled(k) :
                (\A f \in Spilled(k) : Pos(lru, f) <= Pos(lru, e)) =>
                   ResidentBytes(TheCache)' + Len(entries[e])
                      + (IF k \in DOMAIN entries' THEN 0 ELSE Len(stored'[k])) > BudgetBytes
          /\ (ret'.op \in {"read", "append"} /\ k \notin DOMAIN entries') =>
                /\ entries' = <<>>
                /\ Len(stored'[k]) > BudgetBytes]_vars

\* a spilled entry was read while the other key was resident: the read
\* reloaded it as most recently used and spilled the other one
C13_Witness ==
    /\ ret.op = "read"
    /\ ret.spilled
    /\ ret.key \in DOMAIN entries
    /\ ResidentBytes(TheCache) = BudgetBytes
    /\ \E e \in DOMAIN stored : e # ret.key /\ stored[e] # <<>>

\* from the start of segmentation to the return of the last Tree::insert
InCachePhases ==
    \/ pc \in {"stage1", "segments", "in_segments"}
    \/ pc = "stage2" /\ consumer.pc # "done"

\* C14: between the start of segmentation and the end of the last
\* Tree::insert no component other than the Cache creates or writes a
\* file: the files and folders import and its writers have made stay as
\* they were.
C14_OnlyCacheDoesIO ==
    [][InCachePhases => disk' = disk]_vars

CalculateStageDone == pc \in {"flatten", "in_flatten", "done"}

\* C15: once the calculate stage has finished, the segment with 1-based
\* identifier s has its trunk height at segment_values[(s-1)*2] and its
\* crown height at segment_values[(s-1)*2+1], whatever order the results
\* arrived in, and Project::segment(s) of the flattened project is that
\* pair.
C15_SegmentValuesIndexed ==
    /\ CalculateStageDone =>
          /\ DOMAIN segment_values = 0..(Len(segments) * 2 - 1)
          /\ \A s \in 1..Len(segments) :
                /\ segment_values[(s - 1) * 2] = TrunkHeight(segments[s])
                /\ segment_values[(s - 1) * 2 + 1] = CrownHeight(segments[s])
    /\ pc = "done" =>
          \A s \in 1..Len(segments) :
             ProjectSegment(project, s) = <<TrunkHeight(segments[s]), CrownHeight(segments[s])>>

\* three segments, shuffled, whose results arrived out of order, and the
\* project was flattened
C15_Witness ==
    /\ pc = "done"
    /\ Len(segments) = MaxSegments
    /\ segments # [i \in 1..MaxSegments |-> i]
    /\ \E a, b \in DOMAIN received : a < b /\ received[b] < received[a]

\* the identifiers carried by the computed points of the emitted segment i
IdsOf(i) == {pointSegment[k] : k \in Range(emitted[i]) \cap DOMAIN pointSegment}

\* C16: every calculated segment has one identifier, in 1..N for N emitted
\* segments; two segments never share an identifier; every computed point
\* carries the identifier of the segment whose points went to calculate
\* with it.
C16_SegmentIdsUnique ==
    /\ \A i \in calculated :
          /\ Cardinality(IdsOf(i)) = 1
          /\ IdsOf(i) \subseteq 1..Len(emitted)
          /\ Range(emitted[i]) \subseteq DOMAIN pointSegment
    /\ \A i, j \in calculated : i # j => IdsOf(i) \cap IdsOf(j) = {}
    /\ \A k \in DOMAIN pointSegment :
          /\ pointSegment[k] \in calculated
          /\ k \in Range(emitted[pointSegment[k]])

\* two emitted segments were calculated and their points carry two
\* identifiers
C16_Witness ==
    /\ AllCalculated
    /\ Len(emitted) = 2
    /\ Cardinality(Range(pointSegment)) = 2
    /\ Cardinality(DOMAIN pointSegment) >= 3

\* a quotient that is a number of [0, 1]
InUnitInterval(q) == q.den > 0 /\ 0 <= q.num /\ q.num <= q.den

\* two quotients that are numbers and add up to 1
SumToOne(p, q) ==
    /\ p.den > 0 /\ q.den > 0
    /\ p.num * q.den + q.num * p.den = p.den * q.den

\* C17: for the segment given to calculate, the absolute trunk and crown
\* heights add up to the segment height (max y - min y), both percentages
\* lie in [0, 1], and the two percentages sum to 1.
C17_HeightsAddUp ==
    calcPc = "done" =>
        /\ information.trunk_height.absolute + information.crown_height.absolute
              = minmax[2] - minmax[1]
        /\ InUnitInterval(information.trunk_height.percent)
        /\ InUnitInterval(information.crown_height.percent)
        /\ SumToOne(information.trunk_height.percent, information.crown_height.percent)

\* a quotient that is a number greater than 0
StrictlyPositive(q) == q.den > 0 /\ q.num > 0

\* C18: every Point calculate emits has a strictly positive size, which is
\* one third of the mean of the distances the nearest-neighbour query
\* returned, its first entry (the self-match) left out.
C18_SizePositive ==
    \A i \in DOMAIN res :
        /\ res[i].size = Size(Neighbors(data, i))
        /\ Neighbors(data, i)[1] = 0
        /\ StrictlyPositive(res[i].size)

Returned == pc \in {"done", "failed"}

\* C20: on a pool of at least two workers import returns for every
\* interleaving: a reader holding a chunk gets to send it, a consumer whose
\* sender was dropped (also by a reader that failed) leaves its loop, both
\* joins return, and no state short of the return is without a next step.
C20_PipelineLive ==
    /\ (poolSize >= 2) ~> Returned
    /\ (poolSize >= 2 /\ reader.hand # 0) ~> (reader.hand = 0)
    /\ (poolSize >= 2 /\ senderDropped /\ pc \in {"stage1", "stage2"})
          ~> (consumer.pc = "done")
    /\ []((poolSize >= 2 /\ ~Returned) => ENABLED Next)

\* import returned on two workers from the longest input, the reader having
\* waited with a chunk in hand, and after three segments went through the
\* second channel
C20_Witness ==
    /\ pc = "done"
    /\ poolSize = 2
    /\ nChunks = MaxChunks
    /\ Len(received) = MaxSegments

\* the data of the latest save of idx among the saves s, empty when there
\* is none
RECURSIVE LastSaved(_, _)
LastSaved(s, idx) ==
    IF s = <<>> THEN <<>>
    ELSE IF s[Len(s)].idx = idx THEN s[Len(s)].data
    ELSE LastSaved(SubSeq(s, 1, Len(s) - 1), idx)

HeaderBytes == tableSize * 2 * U64Bytes

\* C21 as stated: after DataFile::new(size) and saves with idx < size, a
\* read(idx) on the DataFile returns the data of the latest save(idx), and
\* an empty vector when idx was never saved.
C21_ReadOnAnyDataFile ==
    readResult.via # "none"
        => readResult.value = Vec(LastSaved(saves, readResult.idx))

\* C21 amended: after DataFile::new(size) on a path that held no file and
\* saves with idx < size, read(idx) on a DataFile that DataFile::open
\* returned for the file gives the data of the latest save(idx), empty when
\* idx was never saved; every table entry describes a region inside the
\* file that lies behind the size*16 bytes of the table; and a save to one
\* index leaves what read returns for every other index as it was.
C21_LastWriteWins ==
    /\ [](readResult.via = "open"
            => readResult.value = Vec(LastSaved(saves, readResult.idx)))
    /\ [](fileState = "created" =>
            \A idx \in 0..(tableSize - 1) :
                LET pos == Entry(file, idx)
                IN  /\ pos[1] + pos[2] * ElemBytes <= Len(file)
                    /\ (pos[2] > 0 \/ \E k \in DOMAIN saves : saves[k].idx = idx)
                         => pos[1] >= HeaderBytes)
    /\ [][Len(saves') = Len(saves) + 1 =>
            \A j \in 0..(tableSize - 1) :
                j # saves'[Len(saves')].idx
                    => FileRead(file', "open", j) = FileRead(file, "open", j)]_vars

\* an index saved twice with different data, then another index saved, and
\* the first index read back through an opened DataFile
C21_Witness ==
    /\ Len(saves) = 3
    /\ readResult.via = "open"
    /\ saves[1].idx = readResult.idx
    /\ saves[2].idx = readResult.idx
    /\ saves[3].idx # readResult.idx
    /\ saves[1].data # saves[2].data
    /\ saves[2].data # <<>>
    /\ readResult.value = Vec(saves[2].data)

\* the points of data in the slice s above the lowest point
InSlice(s) ==
    LET lowest == MinOf({data[i][2] : i \in DOMAIN data})
    IN {i \in DOMAIN data : SliceTicks * s <= data[i][2] - lowest
                              /\ data[i][2] - lowest < SliceTicks * (s + 1)}

\* the squared horizontal distances of the pairs of points of slice s,
\* summed: the squared offsets from the mean, times the number of points
PairSpread(s) ==
    LET pairs == {pr \in InSlice(s) \X InSlice(s) : pr[1] < pr[2]}
    IN SumOver(pairs, [pr \in pairs |->
            (data[pr[1]][1] - data[pr[2]][1]) * (data[pr[1]][1] - data[pr[2]][1])
          + (data[pr[1]][3] - data[pr[2]][3]) * (data[pr[1]][3] - data[pr[2]][3])])

TopSlice ==
    LET hs == {data[i][2] : i \in DOMAIN data}
    IN ((CHOOSE h \in hs : \A g \in hs : g <= h) - MinOf(hs)) \div SliceTicks

\* the slices that have dispersion, at least a third of the greatest of
\* the slices (dispersion: the summed squared offsets from the mean over
\* the root of the count, which is spread / count^(3/2))
Qualifying ==
    LET spread == [s \in 0..TopSlice |-> PairSpread(s)]
        count == [s \in 0..TopSlice |-> Cardinality(InSlice(s))]
    IN  {s \in 0..TopSlice :
            /\ spread[s] > 0
            /\ \A m \in 0..TopSlice :
                  9 * spread[s] * spread[s] * count[m] * count[m] * count[m]
                      >= spread[m] * spread[m] * count[s] * count[s] * count[s]}

\* C22: calculate puts the trunk/crown separation at min + slice_width * i
\* for the lowest slice i whose dispersion maps above u32::MAX / 3, and at
\* i = 0 when no slice does, so that the trunk height is 0 and the crown
\* height the whole segment height; the slice chosen is never empty.
C22_TrunkCrownBoundary ==
    LET hs == {data[i][2] : i \in DOMAIN data}
        height == (CHOOSE h \in hs : \A g \in hs : g <= h) - MinOf(hs)
        Q == Qualifying
    IN  /\ (calcPc = "points" /\ res = <<>>) \/ calcPc = "done" =>
              /\ sep = (IF Q = {} THEN 0 ELSE MinOf(Q))
              /\ sep > 0 => InSlice(sep) # {}
        /\ calcPc = "done" =>
              /\ information.trunk_height.absolute = SliceTicks * sep
              /\ information.crown_height.absolute = height - SliceTicks * sep
              /\ Q = {} => /\ information.trunk_height.absolute = 0
                           /\ information.crown_height.absolute = height

\* the separation lies above an empty slice and above a slice whose
\* dispersion is less than a third of the greatest
C22_Witness ==
    /\ calcPc = "done"
    /\ sep = 2
    /\ InSlice(1) = {}
    /\ PairSpread(0) > 0
    /\ Cardinality(InSlice(0)) # Cardinality(InSlice(2))
    /\ information.trunk_height.absolute = SliceTicks * 2

\* the indices of the nodes of a flattened container
IndicesOf(c) == {c.root[n].index : n \in DOMAIN c.root}

HandedOver == received \o [k \in DOMAIN resultChan |-> resultChan[k].index]

TotalInserted == SumOver(DOMAIN treeInserted, treeInserted)

\* a step hands nothing over twice: an item leaves calculate and is sent
\* once, a save writes a slot not written before, an insert is one point of
\* the result being consumed
HandOverStep ==
    /\ \A i \in (DOMAIN items) \cap (DOMAIN items') :
          /\ (items[i] # "todo" => items'[i] # "todo")
          /\ (items[i] = "sent" => items'[i] = "sent")
          /\ ((items'[i] = "sent" /\ items[i] # "sent") => items[i] = "computed")
    /\ (saved' # saved) =>
          /\ resultChan # <<>>
          /\ Head(resultChan).index - 1 \notin DOMAIN saved
          /\ saved' = Put(saved, Head(resultChan).index - 1,
                          segments[Head(resultChan).index])
    /\ (TotalInserted' # TotalInserted) =>
          /\ TotalInserted' = TotalInserted + 1
          /\ consumer.cur \in Range(received)

\* C24: every emitted segment goes through calculate once, its result is
\* received once, saved once at writer index id - 1, and each of its
\* points is inserted into the Tree once; when the second join has
\* returned the Tree::insert calls number the points of the emitted
\* segments, the points of dropped segments not among them.
C24_ExactlyOnce ==
    /\ [](/\ \A a, b \in DOMAIN HandedOver : a # b => HandedOver[a] # HandedOver[b]
          /\ Range(HandedOver) =
                 {SegmentIndex(i - 1) : i \in {j \in DOMAIN items : items[j] = "sent"}}
          /\ \A k \in DOMAIN resultChan :
                 resultChan[k].segment = segments[resultChan[k].index]
          /\ DOMAIN saved = {id - 1 : id \in Range(received)}
          /\ \A id \in Range(received) : saved[id - 1] = segments[id]
          /\ DOMAIN treeInserted \subseteq Range(received)
          /\ \A id \in DOMAIN treeInserted :
                 treeInserted[id] <= SegmentLength(segments[id])
          /\ pc \in {"flatten", "in_flatten", "done"} =>
                 /\ \A i \in DOMAIN items : items[i] = "sent"
                 /\ Range(received) = 1..Len(segments)
                 /\ Len(received) = Len(segments)
                 /\ \A id \in 1..Len(segments) :
                        treeInserted[id] = SegmentLength(segments[id])
                 /\ TotalInserted = EmittedSize(Len(segments))
                 /\ TotalInserted <= added)
    /\ [][HandOverStep]_vars

\* an import that dropped points has returned: three segments went
\* through, not in the order of their identifiers
C24_Witness ==
    /\ pc = "done"
    /\ Len(segments) = MaxSegments
    /\ TotalInserted < added
    /\ TotalInserted > Len(segments)
    /\ \E a, b \in DOMAIN received : a < b /\ received[b] < received[a]

\* C25: for every point p of a non-empty segment the slice index
\* floor((p.y - min) / slice_width) is smaller than the slice count
\* ceil((max - min) / slice_width) + 1, so no access to means, variance or
\* the mapped table in calculate is out of range, also when all points
\* have one height.
C25_SliceIndexInBounds ==
    LET hs == {data[i][2] : i \in DOMAIN data}
        lowest == MinOf(hs)
        height == (CHOOSE h \in hs : \A g \in hs : g <= h) - lowest
        \* the least number of whole slices that cover the height, and one
        count == MinOf({c \in 0..(height + 1) : c * SliceTicks >= height}) + 1
        \* the slices that lie whole below the point
        index(i) == Cardinality({k \in 1..(height + 1) :
                                    k * SliceTicks <= data[i][2] - lowest})
    IN  /\ calcPc # "panicked"
        /\ calcPc # "idle" => minmax = <<lowest, lowest + height>>
        /\ \A i \in DOMAIN data :
               /\ index(i) < count
               /\ index(i) = SliceIndex(data[i][2], lowest)
               /\ count = SliceCount(height)
        /\ calcPc = "done" => Len(res) = Len(data)

\* calculate has returned for several points that share one height: the
\* tables have the one entry every point falls into
C25_Witness ==
    /\ calcPc = "done"
    /\ Len(data) > 1
    /\ Len(res) = Len(data)
    /\ \A i, j \in DOMAIN data : data[i][2] = data[j][2]
    /\ SliceCount(minmax[2] - minmax[1]) = 1

\* the unordered pairs of points, a point paired with itself among them
PairsOfPoints == {Ends(EdgeNew(a, b)) : a, b \in TriIndices}

\* a step of the loop leaves found as it was or larger, and puts no edge
\* into the map that found holds
NoEdgeComesBack ==
    /\ found \subseteq found'
    /\ \A m \in edges' : FoundContains(found, m.key) => m \in edges
    /\ taken' # taken => Cardinality(found') > Cardinality(found)

\* C26: triangulate returns for every input: the loop takes each unordered
\* edge from the map of active edges at most once, since an edge taken or
\* removed is in found and an edge in found is not inserted again; the
\* index list has a multiple of 3 entries, and none when seed found no
\* triangle.
C26_TriangulateTerminates ==
    /\ <>(triPc = "returned")
    /\ [](/\ \A k \in DOMAIN taken : taken[k] = 1
          /\ DOMAIN taken \subseteq found
          /\ \A m \in edges : ~FoundContains(found, m.key)
          /\ \A m, q \in edges : EdgeEq(m.key, q.key) => m = q
          /\ Cardinality(found) <= Cardinality(PairsOfPoints)
          /\ indices_len % 3 = 0
          /\ (triPc = "returned" /\ used = {}) => indices_len = 0
          /\ used # {} => indices_len >= 3)
    /\ [][NoEdgeComesBack]_vars

\* the loop has met an active edge again and put it into found without
\* taking it, has used every point, and has returned more than the seed
\* triangle
C26_Witness ==
    /\ triPc = "returned"
    /\ indices_len > 3
    /\ Cardinality(found) > Cardinality(DOMAIN taken)
    /\ Cardinality(used) = MaxTriPoints

====
